---- MODULE Spec2Model ----
(***************************************************************************)
(* A model of copilot-proxy: the internal bearer token (internal/llm       *)
(* token.go), the vendor credential expiry checks (internal/auth, pkg/     *)
(* utils), the credential resolution of App.GetCopilotAPIKey, the usage    *)
(* map of llm.Service, the HTTP handlers of llm.ServerState, concurrent    *)
(* completions of one caller and auth.Service under concurrent callers.    *)
(*                                                                         *)
(* Time is in whole seconds.  Each component has a specification of its    *)
(* own over the shared variables; the variables a specification does not   *)
(* use keep their initial values.                                          *)
(***************************************************************************)
EXTENDS Integers, Sequences, FiniteSets, TLC

VARIABLES
    now,        \* the wall clock, seconds
    ticks,      \* how many times the clock has advanced
    issued,     \* the internal tokens CreateLLMToken has returned
    vres,       \* the last ValidateLLMToken call: its inputs and its result
    cred,       \* the credential string whose expiry is checked
    credOut,    \* the last expiry check: the function, the time, the answer
    envKey,     \* the environment variable COPILOT_API_KEY ("" when unset)
    oauthEnv,   \* the variables COPILOT_OAUTH_TOKEN and OAUTH_TOKEN
    localFile,  \* the local apps.json: unreadable, or the tokens it holds
    exchanged,  \* history: the credential the last successful exchange gave
    rcall,      \* the last GetCopilotAPIKey call: its inputs and its result
    disableAuth,\* the environment variable DISABLE_AUTH
    cfgKey,     \* Service.config.CopilotAPIKey
    resp,       \* the last HTTP request handled and the response written
    userUsage,  \* Service.userUsage: user id -> ModelUsage
    usageLock,  \* Service.usageLock: the writer holding it, the readers
    procs,      \* the goroutines inside RecordUsage and GetModelUsage
    committed,  \* history: the RecordUsage calls that have returned
    pcall,      \* the last call of a policy function: its inputs, its result
    relay,      \* one chat completion in flight between caller and vendor
    authSvc     \* auth.Service: isAuthenticated and the calls in progress

tokenVars == <<issued, vres>>
credVars == <<cred, credOut>>
resolveVars == <<envKey, oauthEnv, localFile, exchanged, rcall>>
clockVars == <<now, ticks>>
gatewayVars == <<disableAuth, cfgKey, resp>>
usageVars == <<userUsage, usageLock, procs, committed>>
policyVars == <<pcall>>
relayVars == <<relay>>
authVars == <<authSvc>>
vars == <<now, ticks, issued, vres, cred, credOut,
          envKey, oauthEnv, localFile, exchanged, rcall,
          disableAuth, cfgKey, resp,
          userUsage, usageLock, procs, committed, pcall, relay, authSvc>>

\* what each specification leaves alone
exceptToken == <<credVars, resolveVars, gatewayVars, usageVars, policyVars, relayVars, authVars>>
exceptCred == <<tokenVars, resolveVars, gatewayVars, usageVars, policyVars, relayVars, authVars>>
exceptResolve == <<tokenVars, credVars, gatewayVars, usageVars, policyVars, relayVars, authVars>>
exceptUsage == <<tokenVars, credVars, resolveVars, gatewayVars, policyVars, relayVars, authVars>>

None == [kind |-> "none"]

\* A component that a specification leaves alone stays as it starts.
ClockInit == now = 0 /\ ticks = 0
TokenIdle == issued = {} /\ vres = None
CredIdle == cred = <<>> /\ credOut = None
ResolveIdle ==
    /\ envKey = <<>>
    /\ oauthEnv = None
    /\ localFile = None
    /\ exchanged = None
    /\ rcall = None

GatewayIdle ==
    /\ disableAuth = ""
    /\ cfgKey = <<>>
    /\ resp = None
UsageIdle ==
    /\ userUsage = <<>>
    /\ usageLock = None
    /\ procs = <<>>
    /\ committed = None
PolicyIdle == pcall = None
RelayIdle == relay = None
AuthIdle == authSvc = None

(***************************************************************************)
(* The clock.                                                              *)
(***************************************************************************)
TokenLifetime == 3600

MaxTicks == 2

\* The clock advances by one second or by one second less than a token
\* lifetime, so that both sides of every expiry are visited.
TickSteps == {1, TokenLifetime - 1}

Tick ==
    /\ ticks < MaxTicks
    /\ \E d \in TickSteps : now' = now + d
    /\ ticks' = ticks + 1

(***************************************************************************)
(* Internal tokens: an HS256 JWT is the record of its claims and of the    *)
(* secret that signed it; the empty string and a string that is no JWT     *)
(* are the two other token strings.                                        *)
(***************************************************************************)
Users == {1, 123}
Logins == {"testuser", "disabled-auth-user"}
Secrets == {"test-secret", "wrong-secret"}

EmptyToken == [kind |-> "empty"]
MalformedToken == [kind |-> "malformed"]

SignedString(user, login, iat, exp, secret) ==
    [kind |-> "jwt", user_id |-> user, github_user_login |-> login,
     iat |-> iat, exp |-> exp, jti |-> iat, sig |-> secret]

CreateLLMToken(userID, githubLogin, secret, t) ==
    SignedString(userID, githubLogin, t, t + TokenLifetime, secret)

createExpiredToken(userID, githubLogin, secret, t) ==
    SignedString(userID, githubLogin, t - 2 * TokenLifetime,
                 (t - 2 * TokenLifetime) + TokenLifetime, secret)

\* RegisteredClaims.Valid of jwt v4.5.0: the set of validation error flags.
ClaimsValid(tok, t) ==
    (IF t < tok.exp THEN {} ELSE {"Expired"})
        \cup (IF t >= tok.iat THEN {} ELSE {"IssuedAt"})

\* Parser.ParseWithClaims of jwt v4.5.0 with the key function of
\* ValidateLLMToken: the flags of the ValidationError it returns, {} for
\* a valid token.  The claims are validated before the signature and the
\* flags of both add up.
ParseWithClaims(tok, secret, t) ==
    IF tok.kind # "jwt" THEN {"Malformed"}
    ELSE ClaimsValid(tok, t)
            \cup (IF tok.sig = secret THEN {} ELSE {"SignatureInvalid"})

LLMToken(tok) ==
    [Iat |-> tok.iat, Exp |-> tok.exp, Jti |-> tok.jti,
     UserID |-> tok.user_id, GithubUserLogin |-> tok.github_user_login,
     IsStaff |-> TRUE, HasLLMSubscription |-> TRUE,
     MaxMonthlySpendInCents |-> 10000]

\* ValidateLLMToken with the errors.Is(err, jwt.ErrTokenExpired) branch lost.
ValidateLLMToken_NoExpiredBranch(tokenString, secret, t) ==
    LET flags == ParseWithClaims(tokenString, secret, t) IN
    IF flags # {}
    THEN [err |-> "ErrInvalidToken", token |-> None]
    ELSE [err |-> "nil", token |-> LLMToken(tokenString)]

ValidateLLMToken(tokenString, secret, t) ==
    LET flags == ParseWithClaims(tokenString, secret, t) IN
    IF flags # {}
    THEN IF "Expired" \in flags
         THEN [err |-> "ErrTokenExpired", token |-> None]
         ELSE [err |-> "ErrInvalidToken", token |-> None]
    ELSE [err |-> "nil", token |-> LLMToken(tokenString)]

MaxIssued == 1

Issue ==
    /\ Cardinality(issued) < MaxIssued
    /\ \E u \in Users, l \in Logins, s \in Secrets :
          issued' = issued \cup
              {[userID |-> u, githubLogin |-> l, secret |-> s, at |-> now,
                token |-> CreateLLMToken(u, l, s, now)]}
    /\ UNCHANGED <<vres, clockVars>>

\* The token strings a caller may present: nothing, junk, a token this
\* service issued, the same claims signed with another secret, and a
\* token made the way the tests make an expired one.
Presentable ==
    {EmptyToken, MalformedToken}
        \cup {i.token : i \in issued}
        \cup {[i.token EXCEPT !.sig = s] : i \in issued, s \in Secrets}
        \cup {createExpiredToken(u, "testuser", s, now) :
                 u \in {123}, s \in Secrets}

Validate ==
    /\ \E tk \in Presentable, s \in Secrets :
          vres' = [kind |-> "validate", tok |-> tk, secret |-> s, at |-> now,
                   out |-> ValidateLLMToken(tk, s, now)]
    /\ UNCHANGED <<issued, clockVars>>

TokenInit ==
    /\ ClockInit /\ TokenIdle /\ CredIdle /\ ResolveIdle /\ GatewayIdle /\ UsageIdle
    /\ PolicyIdle /\ RelayIdle /\ AuthIdle

TokenNext ==
    \/ Tick /\ UNCHANGED <<tokenVars, exceptToken>>
    \/ Issue /\ UNCHANGED exceptToken
    \/ Validate /\ UNCHANGED exceptToken

SpecToken == TokenInit /\ [][TokenNext]_vars

\* The issue calls whose token and secret the last validation was given.
IssuedAs == {i \in issued : vres.tok = i.token /\ vres.secret = i.secret}

\* C3: a token made by CreateLLMToken(id, name, secret) and validated with
\* the same secret is accepted, with the same id and name, at every time
\* before issue time + TokenLifetime, and fails with ErrTokenExpired (not
\* ErrInvalidToken) from that time on.
C3_RoundTrip ==
    vres.kind = "validate" =>
        \A i \in IssuedAs :
            IF vres.at < i.at + TokenLifetime
            THEN /\ vres.out.err = "nil"
                 /\ vres.out.token.UserID = i.userID
                 /\ vres.out.token.GithubUserLogin = i.githubLogin
            ELSE vres.out.err = "ErrTokenExpired"

\* C3 witness: an issued token validated with its secret at the very second
\* its lifetime ends.
C3_Witness ==
    /\ vres.kind = "validate"
    /\ \E i \in IssuedAs :
          vres.at = i.at + TokenLifetime /\ vres.out.err = "ErrTokenExpired"

\* C4: ValidateLLMToken answers ErrTokenExpired only for a token whose
\* signature is valid under the given secret and whose expiry has passed;
\* every other failure is ErrInvalidToken.
C4_ExpiredOnlyWithValidSignature ==
    vres.kind = "validate" =>
        LET expiredAndSigned ==
                /\ vres.tok.kind = "jwt"
                /\ vres.tok.sig = vres.secret
                /\ vres.at >= vres.tok.exp
        IN  /\ vres.out.err = "ErrTokenExpired" => expiredAndSigned
            /\ (vres.out.err # "nil" /\ ~expiredAndSigned)
                    => vres.out.err = "ErrInvalidToken"

(***************************************************************************)
(* Vendor credentials.  A credential string is the sequence of the parts   *)
(* strings.Split(s, ";") gives: never empty, the empty string being the    *)
(* one empty part, and a string ending in ";" ending in an empty part.     *)
(* A part is its key (the text before "="), and for an exp part whether    *)
(* the value parses as a base-10 int64 and the number it parses to.        *)
(***************************************************************************)
CredExps == {1, 2}

TidPart == [k |-> "tid", isInt |-> FALSE, n |-> 0]
SkuPart == [k |-> "sku", isInt |-> FALSE, n |-> 0]
EmptyPart == [k |-> "", isInt |-> FALSE, n |-> 0]
\* a part without "=", such as "invalid-token" or an OAuth token
OpaquePart == [k |-> "opaque", isInt |-> FALSE, n |-> 0]
ExpPart(e) == [k |-> "exp", isInt |-> TRUE, n |-> e]
BadExpPart == [k |-> "exp", isInt |-> FALSE, n |-> 0]

Parts ==
    {TidPart, SkuPart, EmptyPart, OpaquePart, BadExpPart}
        \cup {ExpPart(e) : e \in CredExps}

MaxParts == 3

Credentials == UNION {[1..n -> Parts] : n \in 1..MaxParts}

EmptyString == <<EmptyPart>>

\* strings.HasPrefix(s, "tid=")
HasTidPrefix(s) == s[1].k = "tid"

VerifyCopilotAPIKey(apiKey, t) ==
    /\ HasTidPrefix(apiKey)
    /\ Len(apiKey) >= 2
    /\ apiKey[2].k = "exp"
    /\ apiKey[2].isInt
    /\ apiKey[2].n > t

\* strings.Index(token, ";exp="): the first part after the first that
\* starts with "exp=", 0 when there is none.
ExpIndex(token) ==
    LET at == {i \in 2..Len(token) : token[i].k = "exp"} IN
    IF at = {} THEN 0 ELSE CHOOSE i \in at : \A j \in at : i <= j

ValidateCopilotToken(token, t) ==
    LET expIndex == ExpIndex(token) IN
    /\ HasTidPrefix(token)
    /\ expIndex # 0
    /\ expIndex < Len(token)            \* a ";" ends the timestamp
    /\ token[expIndex].isInt
    /\ ~(t > token[expIndex].n)

VerifyKey ==
    /\ credOut' = [kind |-> "check", fn |-> "VerifyCopilotAPIKey", at |-> now,
                   valid |-> VerifyCopilotAPIKey(cred, now)]
    /\ UNCHANGED <<cred, clockVars>>

ValidateToken ==
    /\ credOut' = [kind |-> "check", fn |-> "ValidateCopilotToken", at |-> now,
                   valid |-> ValidateCopilotToken(cred, now)]
    /\ UNCHANGED <<cred, clockVars>>

CredInit ==
    /\ GatewayIdle /\ UsageIdle /\ PolicyIdle /\ RelayIdle /\ AuthIdle
    /\ ClockInit /\ TokenIdle /\ ResolveIdle
    /\ cred \in Credentials
    /\ credOut = None

CredNext ==
    \/ Tick /\ UNCHANGED <<credVars, exceptCred>>
    \/ VerifyKey /\ UNCHANGED exceptCred
    \/ ValidateToken /\ UNCHANGED exceptCred

SpecCred == CredInit /\ [][CredNext]_vars

\* C5: each expiry check (VerifyCopilotAPIKey, ValidateCopilotToken) reports
\* a credential valid only when its exp is greater than now: no check
\* reports valid a credential "tid=..;exp=N;.." at now = N.
C5_BoundaryInvalid ==
    (/\ credOut.kind = "check"
     /\ Len(cred) >= 2
     /\ cred[2].k = "exp" /\ cred[2].isInt /\ cred[2].n = credOut.at)
        => ~credOut.valid

(***************************************************************************)
(* Credential resolution: App.GetCopilotAPIKey.                            *)
(***************************************************************************)
GoodCred(e) == <<TidPart, ExpPart(e), SkuPart>>
OAuthShaped == <<OpaquePart>>

\* values of COPILOT_OAUTH_TOKEN and OAUTH_TOKEN: unset, quotes only, a token
OAuthValues == {"", "''", "gho_token"}

\* strings.Trim(v, "'\"")
TrimQuotes(v) == IF v = "''" THEN "" ELSE v

GetCopilotOAuthToken(env) ==
    IF env.copilot # "" THEN [tok |-> TrimQuotes(env.copilot), err |-> FALSE]
    ELSE IF env.oauth # "" THEN [tok |-> TrimQuotes(env.oauth), err |-> FALSE]
    ELSE [tok |-> "", err |-> TRUE]

\* what the token exchange endpoint may answer
ExchangeTokens == {EmptyString} \cup {GoodCred(e) : e \in CredExps}

\* GetAPIKey: the request fails, or the response decodes to its token field
GetAPIKey(oauthToken) ==
    {[tok |-> EmptyString, err |-> TRUE]}
        \cup {[tok |-> x, err |-> FALSE] : x \in ExchangeTokens}

FileTokens == {EmptyString, OAuthShaped, GoodCred(1)}

LocalFiles ==
    {[kind |-> "unreadable", tokens |-> {}]}
        \cup {[kind |-> "tokens", tokens |-> ts] : ts \in SUBSET FileTokens}

\* GetCopilotToken: the first non-empty token of a Go map, in any order
GetCopilotToken(file) ==
    LET nonEmpty == {x \in file.tokens : x # EmptyString} IN
    IF file.kind = "unreadable" \/ nonEmpty = {}
    THEN {[tok |-> EmptyString, err |-> TRUE]}
    ELSE {[tok |-> x, err |-> FALSE] : x \in nonEmpty}

NotCalled == [kind |-> "notcalled"]

\* step 3 with the file's error swallowed
ResolveFromFile_ErrorSwallowed(envK, file, trace, exch) ==
    {[apiKey |-> f.tok, err |-> FALSE, trace |-> Append(trace, "file"),
      exchange |-> exch, fileRead |-> f, newEnv |-> envK] :
        f \in GetCopilotToken(file)}

\* step 3 of GetCopilotAPIKey, after the steps in trace
ResolveFromFile(envK, file, trace, exch) ==
    {[apiKey |-> f.tok, err |-> f.err, trace |-> Append(trace, "file"),
      exchange |-> exch, fileRead |-> f, newEnv |-> envK] :
        f \in GetCopilotToken(file)}

\* steps 2 and 3 without the os.Setenv of the exchanged key
ResolveFromOAuth_NoSetenv(envK, oauth, file, trace) ==
    LET o == GetCopilotOAuthToken(oauth) IN
    IF ~o.err /\ o.tok # ""
    THEN UNION {
            IF ~x.err
            THEN {[apiKey |-> x.tok, err |-> FALSE,
                   trace |-> Append(trace, "exchange"), exchange |-> x,
                   fileRead |-> NotCalled, newEnv |-> envK]}
            ELSE ResolveFromFile(envK, file, Append(trace, "exchange"), x)
            : x \in GetAPIKey(o.tok)}
    ELSE ResolveFromFile(envK, file, trace, NotCalled)

\* steps 2 and 3
ResolveFromOAuth(envK, oauth, file, trace) ==
    LET o == GetCopilotOAuthToken(oauth) IN
    IF ~o.err /\ o.tok # ""
    THEN UNION {
            IF ~x.err
            THEN {[apiKey |-> x.tok, err |-> FALSE,
                   trace |-> Append(trace, "exchange"), exchange |-> x,
                   fileRead |-> NotCalled, newEnv |-> x.tok]}
            ELSE ResolveFromFile(envK, file, Append(trace, "exchange"), x)
            : x \in GetAPIKey(o.tok)}
    ELSE ResolveFromFile(envK, file, trace, NotCalled)

\* GetCopilotAPIKey without the early return of step 1
ResolveOutcomes_NoEarlyReturn(envK, oauth, file, t) ==
    ResolveFromOAuth(envK, oauth, file, <<"env">>)

\* The outcomes of one GetCopilotAPIKey call at time t: the key and error
\* returned, the sources used in order, what the exchange and the file
\* gave, and the value of COPILOT_API_KEY the call leaves.
ResolveOutcomes(envK, oauth, file, t) ==
    IF envK # EmptyString /\ VerifyCopilotAPIKey(envK, t)
    THEN {[apiKey |-> envK, err |-> FALSE, trace |-> <<"env">>,
           exchange |-> NotCalled, fileRead |-> NotCalled, newEnv |-> envK]}
    ELSE ResolveFromOAuth(envK, oauth, file, <<"env">>)

GetCopilotAPIKey ==
    /\ \E r \in ResolveOutcomes(envKey, oauthEnv, localFile, now) :
          /\ rcall' = [kind |-> "resolve", at |-> now, envBefore |-> envKey,
                       cachedBefore |-> exchanged, out |-> r]
          /\ envKey' = r.newEnv
          /\ exchanged' = IF r.exchange # NotCalled /\ ~r.exchange.err
                          THEN [kind |-> "key", key |-> r.exchange.tok]
                          ELSE exchanged
    /\ UNCHANGED <<oauthEnv, localFile, clockVars>>

ResolveInit ==
    /\ ClockInit /\ TokenIdle /\ CredIdle /\ GatewayIdle /\ UsageIdle
    /\ PolicyIdle /\ RelayIdle /\ AuthIdle
    /\ envKey \in {EmptyString, OAuthShaped} \cup {GoodCred(e) : e \in CredExps}
    /\ oauthEnv \in [copilot : OAuthValues, oauth : OAuthValues]
    /\ localFile \in LocalFiles
    /\ exchanged = None
    /\ rcall = None

ResolveNext ==
    \/ Tick /\ UNCHANGED <<resolveVars, exceptResolve>>
    \/ GetCopilotAPIKey /\ UNCHANGED exceptResolve

SpecResolve == ResolveInit /\ [][ResolveNext]_vars

\* the inputs of the recorded call, as the three sources see them
EnvUsable == rcall.envBefore # EmptyString
                /\ VerifyCopilotAPIKey(rcall.envBefore, rcall.at)
OAuthConfigured == LET o == GetCopilotOAuthToken(oauthEnv) IN ~o.err /\ o.tok # ""
ExchangeFailed == rcall.out.exchange # NotCalled /\ rcall.out.exchange.err
FileUsable == localFile.kind = "tokens"
                /\ \E x \in localFile.tokens : x # EmptyString

\* C6: GetCopilotAPIKey tries its sources in the order configured key,
\* OAuth exchange, local file; a configured key that passes the expiry
\* check is returned with no exchange call and no file read; the file is
\* read only when no OAuth token is configured or the exchange failed.
C6_ResolutionOrder ==
    rcall.kind = "resolve" =>
        /\ rcall.out.trace \in {<<"env">>, <<"env", "exchange">>,
                                <<"env", "file">>, <<"env", "exchange", "file">>}
        /\ EnvUsable =>
              /\ rcall.out.apiKey = rcall.envBefore /\ ~rcall.out.err
              /\ rcall.out.exchange = NotCalled
              /\ rcall.out.fileRead = NotCalled
              /\ rcall.out.trace = <<"env">>
        /\ (~EnvUsable /\ OAuthConfigured) => rcall.out.exchange # NotCalled
        /\ rcall.out.exchange # NotCalled => ~EnvUsable /\ OAuthConfigured
        /\ rcall.out.fileRead # NotCalled =>
              ~EnvUsable /\ (~OAuthConfigured \/ ExchangeFailed)

C6_Witness ==
    /\ rcall.kind = "resolve" /\ EnvUsable /\ OAuthConfigured /\ FileUsable
    /\ rcall.out.apiKey = rcall.envBefore
    /\ rcall.out.trace = <<"env">>

\* C7: GetCopilotAPIKey returns its error exactly when the configured key
\* is unusable, no OAuth token is configured or the exchange failed, and
\* the local file has no non-empty token; no source is tried twice in one
\* call.
C7_ErrorIffAllSourcesFail ==
    rcall.kind = "resolve" =>
        /\ rcall.out.err <=>
              /\ ~EnvUsable
              /\ ~OAuthConfigured \/ ExchangeFailed
              /\ ~FileUsable
        /\ \A i, j \in 1..Len(rcall.out.trace) :
              rcall.out.trace[i] = rcall.out.trace[j] => i = j

C7_Witness ==
    /\ rcall.kind = "resolve" /\ rcall.out.err
    /\ rcall.envBefore # EmptyString
    /\ rcall.out.trace = <<"env", "exchange", "file">>

\* C8: once a call has obtained a key through the exchange, every later
\* call made while that key passes the expiry check returns that key from
\* step 1 and makes no exchange call.
C8_ExchangedKeyCached ==
    (/\ rcall.kind = "resolve"
     /\ rcall.cachedBefore.kind = "key"
     /\ VerifyCopilotAPIKey(rcall.cachedBefore.key, rcall.at)) =>
        /\ rcall.out.apiKey = rcall.cachedBefore.key /\ ~rcall.out.err
        /\ rcall.out.trace = <<"env">>
        /\ rcall.out.exchange = NotCalled

C8_Witness ==
    /\ rcall.kind = "resolve" /\ rcall.at > 0
    /\ rcall.cachedBefore.kind = "key"
    /\ VerifyCopilotAPIKey(rcall.cachedBefore.key, rcall.at)
    /\ rcall.out.apiKey = rcall.cachedBefore.key
    /\ rcall.out.trace = <<"env">>

(***************************************************************************)
(* The gateway: main's start-up and the handlers of llm.ServerState.       *)
(* A model name is the sequence of its pieces, so that a prefix and a      *)
(* substring are what they are for strings.                                *)
(***************************************************************************)
HasPrefix(str, prefix) ==
    Len(prefix) <= Len(str) /\ SubSeq(str, 1, Len(prefix)) = prefix

Contains(str, sub) ==
    \E i \in 1..(Len(str) + 1) :
        i + Len(sub) - 1 <= Len(str) /\ SubSeq(str, i, i + Len(sub) - 1) = sub

CopilotChat == <<"copilot-chat">>
Gpt4 == <<"gpt-4">>
Gpt4o == <<"gpt-4", "o">>
Claude3Opus == <<"claude-3-opus">>

\* DefaultModels: name -> the limits CheckRateLimit reads
DefaultModels ==
    <<[Name |-> CopilotChat, MaxRequestsPerMinute |-> 25,
       MaxTokensPerMinute |-> 5000, MaxInputTokensPerMinute |-> 2500,
       MaxOutputTokensPerMinute |-> 2500, MaxTokensPerDay |-> 100000],
      [Name |-> Gpt4, MaxRequestsPerMinute |-> 20,
       MaxTokensPerMinute |-> 4000, MaxInputTokensPerMinute |-> 2000,
       MaxOutputTokensPerMinute |-> 2000, MaxTokensPerDay |-> 80000],
      [Name |-> Claude3Opus, MaxRequestsPerMinute |-> 15,
       MaxTokensPerMinute |-> 3000, MaxInputTokensPerMinute |-> 1500,
       MaxOutputTokensPerMinute |-> 1500, MaxTokensPerDay |-> 60000]>>

\* the token the handlers use when DISABLE_AUTH is set; its Jti is the
\* empty string, here -1
validateTokenDisabled ==
    [Iat |-> 0, Exp |-> 0, Jti |-> -1,
     UserID |-> 1, GithubUserLogin |-> "disabled-auth-user",
     IsStaff |-> TRUE, HasLLMSubscription |-> TRUE,
     MaxMonthlySpendInCents |-> 10000]

\* Authorization headers: absent, one that does not start with
\* "Bearer ", and "Bearer " followed by a token string
NoHeader == [kind |-> "absent"]
OtherHeader == [kind |-> "other"]
Bearer(tok) == [kind |-> "bearer", tok |-> tok]

\* validateToken with DISABLE_AUTH compared to the empty string only
validateToken_AnyValueDisables(disable, auth, secret, t) ==
    IF disable # ""
    THEN [err |-> "nil", token |-> validateTokenDisabled]
    ELSE IF auth.kind # "bearer"
    THEN [err |-> "invalid or missing authorization header", token |-> None]
    ELSE ValidateLLMToken(auth.tok, secret, t)

\* validateToken without the check of the header's "Bearer " prefix
validateToken_NoHeaderCheck(disable, auth, secret, t) ==
    IF disable \in {"true", "1"} \/ auth.kind # "bearer"
    THEN [err |-> "nil", token |-> validateTokenDisabled]
    ELSE ValidateLLMToken(auth.tok, secret, t)

validateToken(disable, auth, secret, t) ==
    IF disable \in {"true", "1"}
    THEN [err |-> "nil", token |-> validateTokenDisabled]
    ELSE IF auth.kind # "bearer"
    THEN [err |-> "invalid or missing authorization header", token |-> None]
    ELSE ValidateLLMToken(auth.tok, secret, t)

\* an error body without the param and code members
writeOpenAIError_NoNulls(status, message, errType) ==
    [status |-> status,
     body |-> [kind |-> "error",
               error |-> [message |-> message, type |-> errType]]]

writeOpenAIError(status, message, errType) ==
    [status |-> status,
     body |-> [kind |-> "error",
               error |-> [message |-> message, type |-> errType,
                          param |-> "null", code |-> "null"]]]

\* the 401 both handlers write when validateToken fails
Unauthorized(err) ==
    IF err = "ErrTokenExpired"
    THEN [expiredHeader |-> TRUE] @@
         writeOpenAIError(401, "token expired", "invalid_request_error")
    ELSE [expiredHeader |-> FALSE] @@
         writeOpenAIError(401, "unauthorized", "invalid_request_error")

\* getCountryCode: "" stands for no CF-IPCountry header and for nil
getCountryCode(header) == IF header \in {"", "XX"} THEN "" ELSE header

restrictedCountries ==
    {"AF", "BY", "CF", "CN", "CU", "ER", "ET", "IR", "KP", "XK", "LY", "MM",
     "RU", "SO", "SS", "SD", "SY", "VE", "YE"}

\* AuthorizeAccessForCountry without the "XX" placeholder test
AuthorizeAccessForCountry_PlaceholderAllowed(countryCode) ==
    IF countryCode = "" THEN "ErrNoCountryCode"
    ELSE IF countryCode = "T1" THEN "ErrTorNetwork"
    ELSE IF countryCode \in restrictedCountries THEN "ErrRestrictedRegion"
    ELSE "nil"

AuthorizeAccessForCountry(countryCode) ==
    IF countryCode \in {"", "XX"} THEN "ErrNoCountryCode"
    ELSE IF countryCode = "T1" THEN "ErrTorNetwork"
    ELSE IF countryCode \in restrictedCountries THEN "ErrRestrictedRegion"
    ELSE "nil"

EmptyUsage == [u \in {} |-> 0]

GetModelUsage(usage, userID, model) ==
    IF userID \in DOMAIN usage THEN usage[userID]
    ELSE [UserID |-> userID, Model |-> model,
          RequestsThisMinute |-> 0, TokensThisMinute |-> 0,
          InputTokensThisMinute |-> 0, OutputTokensThisMinute |-> 0,
          TokensThisDay |-> 0]

\* RecordUsage that starts the counters again on every call
ModelUsageAfter_NewWindow(exists, existing, userID, model, tokens) ==
    [UserID |-> userID, Model |-> model,
     RequestsThisMinute |-> 1, TokensThisMinute |-> tokens,
     InputTokensThisMinute |-> 0, OutputTokensThisMinute |-> 0,
     TokensThisDay |-> 0]

\* RecordUsage between its map read and its map write: the new record
ModelUsageAfter(exists, existing, userID, model, tokens) ==
    IF ~exists
    THEN [UserID |-> userID, Model |-> model,
          RequestsThisMinute |-> 1, TokensThisMinute |-> tokens,
          InputTokensThisMinute |-> 0, OutputTokensThisMinute |-> 0,
          TokensThisDay |-> 0]
    ELSE [existing EXCEPT !.RequestsThisMinute = @ + 1,
                          !.TokensThisMinute = @ + tokens]

\* s.userUsage[userID] = existing
StoreUsage(usage, userID, record) ==
    [u \in DOMAIN usage \cup {userID} |->
        IF u = userID THEN record ELSE usage[u]]

\* RecordUsage run alone, under its lock
RecordUsage(usage, userID, model, tokens) ==
    StoreUsage(usage, userID,
               ModelUsageAfter(userID \in DOMAIN usage,
                               GetModelUsage(usage, userID, model),
                               userID, model, tokens))

\* the model CheckRateLimit's loop stops at: the first of DefaultModels
\* with the name, None when the loop ends without one
FindModel(modelName) ==
    LET found == {i \in 1..Len(DefaultModels) :
                     DefaultModels[i].Name = modelName} IN
    IF found = {} THEN None
    ELSE DefaultModels[CHOOSE i \in found : \A j \in found : i <= j]

\* the five errors CheckRateLimit wraps ErrRateLimitExceeded in, by text
RequestsPerMinuteReached ==
    "rate limit exceeded: maximum requests_per_minute reached"
TokensPerMinuteReached ==
    "rate limit exceeded: maximum tokens_per_minute reached"
InputTokensPerMinuteReached ==
    "rate limit exceeded: maximum input_tokens_per_minute reached"
OutputTokensPerMinuteReached ==
    "rate limit exceeded: maximum output_tokens_per_minute reached"
TokensPerDayReached ==
    "rate limit exceeded: maximum tokens_per_day reached"

\* errors.Is(err, ErrRateLimitExceeded)
IsRateLimitExceeded(err) ==
    err \in {RequestsPerMinuteReached, TokensPerMinuteReached,
             InputTokensPerMinuteReached, OutputTokensPerMinuteReached,
             TokensPerDayReached}

\* CheckRateLimit with the token total compared before the request count
CheckRateLimit_TokensFirst(modelName, usage) ==
    LET model == FindModel(modelName) IN
    IF model = None THEN "unknown model"
    ELSE IF usage.TokensThisMinute > model.MaxTokensPerMinute
    THEN TokensPerMinuteReached
    ELSE IF usage.RequestsThisMinute > model.MaxRequestsPerMinute
    THEN RequestsPerMinuteReached
    ELSE IF usage.InputTokensThisMinute > model.MaxInputTokensPerMinute
    THEN InputTokensPerMinuteReached
    ELSE IF usage.OutputTokensThisMinute > model.MaxOutputTokensPerMinute
    THEN OutputTokensPerMinuteReached
    ELSE IF usage.TokensThisDay > model.MaxTokensPerDay
    THEN TokensPerDayReached
    ELSE "nil"

\* CheckRateLimit that refuses a counter standing at its ceiling
CheckRateLimit_AtCeiling(modelName, usage) ==
    LET model == FindModel(modelName) IN
    IF model = None THEN "unknown model"
    ELSE IF usage.RequestsThisMinute >= model.MaxRequestsPerMinute
    THEN RequestsPerMinuteReached
    ELSE IF usage.TokensThisMinute >= model.MaxTokensPerMinute
    THEN TokensPerMinuteReached
    ELSE IF usage.InputTokensThisMinute >= model.MaxInputTokensPerMinute
    THEN InputTokensPerMinuteReached
    ELSE IF usage.OutputTokensThisMinute >= model.MaxOutputTokensPerMinute
    THEN OutputTokensPerMinuteReached
    ELSE IF usage.TokensThisDay >= model.MaxTokensPerDay
    THEN TokensPerDayReached
    ELSE "nil"

\* CheckRateLimit: "nil", the unknown-model error, or the error of the
\* first ceiling the usage is above
CheckRateLimit(modelName, usage) ==
    LET model == FindModel(modelName) IN
    IF model = None THEN "unknown model"
    ELSE IF usage.RequestsThisMinute > model.MaxRequestsPerMinute
    THEN RequestsPerMinuteReached
    ELSE IF usage.TokensThisMinute > model.MaxTokensPerMinute
    THEN TokensPerMinuteReached
    ELSE IF usage.InputTokensThisMinute > model.MaxInputTokensPerMinute
    THEN InputTokensPerMinuteReached
    ELSE IF usage.OutputTokensThisMinute > model.MaxOutputTokensPerMinute
    THEN OutputTokensPerMinuteReached
    ELSE IF usage.TokensThisDay > model.MaxTokensPerDay
    THEN TokensPerDayReached
    ELSE "nil"

\* ValidateAccess: the token is not read
ValidateAccess(token, modelName, usage) == CheckRateLimit(modelName, usage)

MockLifetime == 24 * 3600

\* mockApp.GetCopilotAPIKey, which GetConfig reaches through DynamicImport
MockGetCopilotAPIKey(oauth, t) ==
    LET raw == IF oauth.copilot # "" THEN oauth.copilot ELSE oauth.oauth IN
    IF raw # ""
    THEN [tok |-> <<TidPart, ExpPart(t + MockLifetime), SkuPart>>, err |-> FALSE]
    ELSE [tok |-> EmptyString, err |-> TRUE]

\* GetConfig, first call: the CopilotAPIKey of the singleton Config and the
\* value of COPILOT_API_KEY it leaves.  No source is checked for expiry.
GetConfig(envK, file, oauth, t) ==
    IF envK # EmptyString THEN {[key |-> envK, newEnv |-> envK]}
    ELSE {IF ~f.err THEN [key |-> f.tok, newEnv |-> envK]
          ELSE LET m == MockGetCopilotAPIKey(oauth, t) IN
               IF ~m.err THEN [key |-> m.tok, newEnv |-> m.tok]
               ELSE [key |-> EmptyString, newEnv |-> envK]
          : f \in GetCopilotToken(file)}

\* main in server mode, up to the start of the HTTP server: resolve the
\* key and export it, build the server state (GetConfig runs once), then
\* the exchange main makes when OAUTH_TOKEN is set, fatal when it fails.
\* The CopilotAPIKey values the server may start to serve with.
Startup(envK, oauth, file, t) ==
    {c.key : c \in UNION {
        GetConfig(IF r.err THEN r.newEnv ELSE r.apiKey, file, oauth, t) :
            r \in {o \in ResolveOutcomes(envK, oauth, file, t) :
                      oauth.oauth # "" =>
                          \E x \in GetAPIKey(oauth.oauth) : ~x.err}}}

\* ServerState.Secret
LLMSecret == "test-secret"

\* The token strings callers hold at time t: junk, a token CreateLLMToken
\* made just now, one it made a lifetime ago, the same claims signed with
\* another secret, and a token made the way the tests make an expired one.
HeldTokens(t) ==
    {MalformedToken,
     CreateLLMToken(1, "disabled-auth-user", LLMSecret, t),
     CreateLLMToken(1, "disabled-auth-user", "wrong-secret", t),
     createExpiredToken(123, "testuser", "wrong-secret", t)}
        \cup {CreateLLMToken(123, "testuser", LLMSecret, t0) :
                 t0 \in {t - TokenLifetime} \cap Nat}

AuthHeaders(t) == {NoHeader, OtherHeader} \cup {Bearer(tk) : tk \in HeldTokens(t)}

CountryHeaders == {"", "T1", "CN", "US"}

VendorModel(id) == [ID |-> id, Name |-> id]
VendorLists == {<<>>, <<VendorModel(Gpt4o), VendorModel(Gpt4)>>,
                <<VendorModel(CopilotChat)>>}

\* what the vendor may answer to GET /models: no answer, a status other
\* than 200 or a body that does not decode, a list of models
ModelsReplies ==
    {[kind |-> k, data |-> <<>>] : k \in {"neterr", "status"}}
        \cup {[kind |-> "ok", data |-> l] : l \in VendorLists}

\* and to POST /chat/completions: no answer, or a status
ChatReplies == {[kind |-> "neterr", code |-> 0],
                [kind |-> "status", code |-> 401],
                [kind |-> "status", code |-> 200]}

VendorCall(path) == [path |-> path, key |-> cfgKey]

\* the response of a handler, with the request data the properties refer to
Response(endpoint, auth, claims, vendor, out) ==
    [kind |-> "response", endpoint |-> endpoint, at |-> now, auth |-> auth,
     claims |-> claims, vendor |-> vendor] @@ out
        @@ [expiredHeader |-> FALSE, retryAfter |-> "", upstream |-> None]

\* AuthorizeAccessToModel: everyone has access to all models
AuthorizeAccessToModel(token, provider, modelName) == "nil"

\* a filter loop that tags every upstream model and drops none
FilterModels_NoCountryCheck(countryCode, token, data) ==
    [i \in 1..Len(data) |-> [object |-> "model"] @@ data[i]]

\* the filter loop of HandleListModels: the upstream models the country
\* and the token may use, in their order, each with "object" set to "model"
RECURSIVE FilterModels(_, _, _)
FilterModels(countryCode, token, data) ==
    IF data = <<>> THEN <<>>
    ELSE LET model == Head(data)
             rest == FilterModels(countryCode, token, Tail(data))
         IN IF /\ AuthorizeAccessForCountry(countryCode) = "nil"
               /\ AuthorizeAccessToModel(token, "copilot", model.Name) = "nil"
            THEN <<[object |-> "model"] @@ model>> \o rest
            ELSE rest

HandleListModels ==
    /\ \E auth \in AuthHeaders(now) :
        LET v == validateToken(disableAuth, auth, LLMSecret, now) IN
        IF v.err # "nil"
        THEN resp' = Response("models", auth, None, <<>>, Unauthorized(v.err))
        ELSE IF cfgKey = EmptyString
        THEN resp' = Response("models", auth, v.token, <<>>,
                        writeOpenAIError(500, "missing Copilot API key",
                                         "internal_error"))
        ELSE \E country \in CountryHeaders, reply \in ModelsReplies :
             resp' = Response("models", auth, v.token,
                        <<VendorCall("/models")>>,
                        IF reply.kind # "ok"
                        THEN writeOpenAIError(502, reply.kind, "api_error")
                        ELSE [status |-> 200,
                              body |-> [kind |-> "list",
                                        data |-> FilterModels(
                                                    getCountryCode(country),
                                                    v.token, reply.data)]])
    /\ UNCHANGED <<disableAuth, cfgKey, userUsage, clockVars>>

\* the model names requests ask for; <<>> is the empty string
RequestModels == {<<>>, Gpt4, <<"o">>}

\* request bodies: one that cannot be read, one that is no JSON object,
\* an OpenAI chat request, and the internal form whose provider_request
\* is a string holding JSON or not
Bodies ==
    {[kind |-> k, model |-> <<>>, stream |-> FALSE, inner |-> "json"] :
        k \in {"unreadable", "notjson"}}
        \cup {[kind |-> "openai", model |-> m, stream |-> FALSE, inner |-> "json"] :
                 m \in RequestModels}
        \cup {[kind |-> "openai", model |-> CopilotChat, stream |-> TRUE,
                inner |-> "json"]}
        \cup {[kind |-> "params", model |-> Gpt4, stream |-> FALSE,
                inner |-> "notjson"]}

\* CompletionParams as HandleCompletion builds them from a JSON body
CompletionParams(body) ==
    IF body.kind = "params"
    THEN [Model |-> body.model, ProviderRequest |-> body.inner]
    ELSE [Model |-> IF body.model = <<>> THEN CopilotChat ELSE body.model,
          ProviderRequest |-> "json"]

\* the model PerformCompletion selects from the vendor's list, <<>> if none
SelectModel(copilotModels, reqModel) ==
    LET first(S) == CHOOSE i \in S : \A j \in S : i <= j
        exact == {i \in 1..Len(copilotModels) :
                     \/ copilotModels[i].ID = reqModel
                     \/ copilotModels[i].Name = reqModel
                     \/ HasPrefix(copilotModels[i].ID, reqModel)}
        containing == {i \in 1..Len(copilotModels) :
                          Contains(copilotModels[i].ID, reqModel)}
    IN IF exact # {} THEN copilotModels[first(exact)].ID
       ELSE IF containing # {} THEN copilotModels[first(containing)].ID
       ELSE <<>>

\* the tokens ProcessStreamingResponse records for one completion
RecordedTokens == 100 + 100

MaxRecorded == 1

BadRequest(message) == writeOpenAIError(400, message, "invalid_request_error")

\* ProcessStreamingResponse that records the usage before it looks at the
\* vendor's status
ProcessStreamingResponse_RecordsFirst(usage, code, userID, model) ==
    [err |-> IF code # 200 THEN "API returned error" ELSE "nil",
     usage |-> RecordUsage(usage, userID, model, RecordedTokens)]

\* ProcessStreamingResponse that takes every vendor status for a success
ProcessStreamingResponse_AnyStatus(usage, code, userID, model) ==
    [err |-> "nil",
     usage |-> RecordUsage(usage, userID, model, RecordedTokens)]

\* ProcessStreamingResponse: its error and the usage map it leaves
ProcessStreamingResponse(usage, code, userID, model) ==
    IF code # 200
    THEN [err |-> "API returned error", usage |-> usage]
    ELSE [err |-> "nil",
          usage |-> RecordUsage(usage, userID, model, RecordedTokens)]

HandleCompletion ==
    /\ \E auth \in AuthHeaders(now) :
        LET v == validateToken(disableAuth, auth, LLMSecret, now)
            Reply(vendor, out) ==
                /\ resp' = Response("completion", auth, v.token, vendor, out)
                /\ UNCHANGED userUsage
        IN
        IF v.err # "nil" THEN Reply(<<>>, Unauthorized(v.err))
        ELSE \E body \in Bodies :
        IF body.kind = "unreadable"
        THEN Reply(<<>>, BadRequest("error reading request body"))
        ELSE IF body.kind = "notjson"
        THEN Reply(<<>>, BadRequest("invalid request body"))
        ELSE LET params == CompletionParams(body) IN
        IF cfgKey = EmptyString
        THEN Reply(<<>>, BadRequest("failed to fetch models"))
        ELSE \E models \in ModelsReplies :
        IF models.kind # "ok"
        THEN Reply(<<VendorCall("/models")>>, BadRequest("failed to fetch models"))
        ELSE LET modelID == SelectModel(models.data, params.Model)
                 usage == GetModelUsage(userUsage, v.token.UserID, modelID)
        IN
        IF modelID = <<>>
        THEN Reply(<<VendorCall("/models")>>, BadRequest("unknown model"))
        ELSE IF CheckRateLimit(modelID, usage) # "nil"
        THEN Reply(<<VendorCall("/models")>>,
                   BadRequest(CheckRateLimit(modelID, usage)))
        ELSE IF params.ProviderRequest # "json"
        THEN Reply(<<VendorCall("/models")>>, BadRequest("invalid provider request"))
        ELSE \E chat \in ChatReplies :
        LET calls == <<VendorCall("/models"), VendorCall("/chat/completions")>> IN
        IF chat.kind = "neterr"
        THEN Reply(calls, [upstream |-> chat]
                              @@ BadRequest("vendor unreachable"))
        ELSE LET p == ProcessStreamingResponse(userUsage, chat.code,
                                               v.token.UserID, params.Model)
        IN
        IF p.err # "nil"
        THEN /\ userUsage' = p.usage
             /\ resp' = Response("completion", auth, v.token, calls,
                            [upstream |-> chat]
                                @@ writeOpenAIError(500, p.err,
                                                    "internal_error"))
        ELSE /\ usage.RequestsThisMinute < MaxRecorded
             /\ userUsage' = p.usage
             /\ resp' = Response("completion", auth, v.token, calls,
                            [upstream |-> chat,
                             status |-> 200,
                             body |-> [kind |-> IF body.stream THEN "sse"
                                                ELSE "chat.completion",
                                       model |-> params.Model]])
    /\ UNCHANGED <<disableAuth, cfgKey, clockVars>>

DisableAuthValues == {"", "true", "1", "false"}

\* how the server is deployed: COPILOT_API_KEY, the OAuth variables, the
\* local file
Deployments ==
    {[env |-> e, oauth |-> [copilot |-> c, oauth |-> ""], file |-> f] :
        e \in {EmptyString, GoodCred(1)},
        c \in {"", "gho_token"},
        f \in {[kind |-> "unreadable", tokens |-> {}]}}

\* the usage map after n completions of one user have been recorded
RECURSIVE Recorded(_, _, _, _)
Recorded(usage, userID, model, n) ==
    IF n = 0 THEN usage
    ELSE RecordUsage(Recorded(usage, userID, model, n - 1), userID, model,
                     RecordedTokens)

\* one request more than the per-minute ceiling of copilot-chat
BusyRequests == DefaultModels[1].MaxRequestsPerMinute + 1

\* the usage maps the server is taken up with: no request served yet, or
\* enough of user 1's served for the counters, which nothing resets, to
\* stand above the ceiling
ServedBefore ==
    {EmptyUsage, Recorded(EmptyUsage, 1, CopilotChat, BusyRequests)}

GatewayInit ==
    /\ ClockInit /\ TokenIdle /\ CredIdle /\ ResolveIdle
    /\ PolicyIdle /\ RelayIdle /\ AuthIdle
    /\ disableAuth \in DisableAuthValues
    /\ \E d \in Deployments : cfgKey \in Startup(d.env, d.oauth, d.file, now)
    /\ resp = None
    /\ userUsage \in ServedBefore
    /\ usageLock = None /\ procs = <<>> /\ committed = None

MaxGatewayTicks == 1

exceptGateway ==
    <<tokenVars, credVars, resolveVars, usageLock, procs, committed,
      policyVars, relayVars, authVars>>

GatewayNext ==
    \/ ticks < MaxGatewayTicks /\ Tick
          /\ UNCHANGED <<tokenVars, credVars, resolveVars, gatewayVars, usageVars,
                         policyVars, relayVars, authVars>>
    \/ HandleListModels /\ UNCHANGED exceptGateway
    \/ HandleCompletion /\ UNCHANGED exceptGateway

SpecGateway == GatewayInit /\ [][GatewayNext]_vars

AuthEnabled == disableAuth \notin {"true", "1"}

\* the request of the last response carried "Bearer " and a token that
\* ValidateLLMToken accepts under the server's secret at that time
PassesValidation ==
    /\ resp.auth.kind = "bearer"
    /\ ValidateLLMToken(resp.auth.tok, LLMSecret, resp.at).err = "nil"

\* C1: with auth enabled, a request to the model list or to the completion
\* endpoint without an Authorization header, or with one that is not a
\* Bearer token passing validation, gets status 401 with the error
\* envelope as its body, and no vendor call is made for it.
C1_Unauthenticated401 ==
    (resp.kind = "response" /\ AuthEnabled /\ ~PassesValidation) =>
        /\ resp.status = 401
        /\ resp.body.kind = "error"
        /\ resp.body.error.type = "invalid_request_error"
        /\ resp.vendor = <<>>

C1_Witness ==
    /\ resp.kind = "response" /\ disableAuth = ""
    /\ resp.endpoint = "completion" /\ resp.auth = NoHeader
    /\ cfgKey # EmptyString
    /\ resp.status = 401 /\ resp.vendor = <<>>

\* C2: when DISABLE_AUTH is "true" or "1", validateToken accepts every
\* request, whatever its Authorization header, and returns the synthetic
\* token (user 1, staff, subscribed); otherwise it never returns the
\* synthetic token and accepts only a Bearer token that ValidateLLMToken
\* accepts, returning that token's claims.
C2_DisableAuthSwitch ==
    resp.kind = "response" =>
        IF ~AuthEnabled
        THEN /\ resp.status # 401
             /\ resp.claims = validateTokenDisabled
             /\ resp.claims.UserID = 1
             /\ resp.claims.IsStaff /\ resp.claims.HasLLMSubscription
        ELSE /\ resp.claims # validateTokenDisabled
             /\ resp.status # 401 <=> PassesValidation
             /\ PassesValidation =>
                   resp.claims = ValidateLLMToken(resp.auth.tok, LLMSecret,
                                                  resp.at).token

C2_Witness ==
    /\ resp.kind = "response" /\ disableAuth = "1"
    /\ resp.auth = Bearer(createExpiredToken(123, "testuser", "wrong-secret",
                                             resp.at))
    /\ resp.claims = validateTokenDisabled
    /\ resp.status = 200

\* C9: no vendor call, for a completion or for the model list, carries a
\* credential whose expiry has passed at the time of the call.
C9_NoExpiredCredentialSent ==
    resp.kind = "response" =>
        \A i \in 1..Len(resp.vendor) :
            VerifyCopilotAPIKey(resp.vendor[i].key, resp.at)

(***************************************************************************)
(* The usage map under concurrent callers: each goroutine is inside one    *)
(* RecordUsage or one GetModelUsage call and moves one statement at a      *)
(* time; usageLock is a sync.RWMutex.                                      *)
(***************************************************************************)
MaxProcs == 3
Procs == 1..MaxProcs

UsageCaller == 1
TokenAmounts == {1, RecordedTokens}

Unlocked == [writer |-> 0, readers |-> {}]

\* Lock that excludes nobody
CanLock_NoExclusion(lock) == TRUE

\* usageLock.Lock() returns when no writer and no reader holds the lock
CanLock(lock) == lock.writer = 0 /\ lock.readers = {}

\* usageLock.RLock() returns when no writer holds the lock
CanRLock(lock) == lock.writer = 0

NoUsage == [UserID |-> 0, Model |-> <<>>,
            RequestsThisMinute |-> 0, TokensThisMinute |-> 0,
            InputTokensThisMinute |-> 0, OutputTokensThisMinute |-> 0,
            TokensThisDay |-> 0]

Goroutine(op, tokens) ==
    [op |-> op, pc |-> "start", userID |-> UsageCaller, model |-> Gpt4,
     tokens |-> tokens, exists |-> FALSE, existing |-> NoUsage,
     seen |-> [count |-> 0, tokens |-> 0]]

At(p, op, pc) == procs[p].op = op /\ procs[p].pc = pc

\* RecordUsage: s.usageLock.Lock()
RecordLock(p) ==
    /\ At(p, "record", "start")
    /\ CanLock(usageLock)
    /\ usageLock' = [usageLock EXCEPT !.writer = p]
    /\ procs' = [procs EXCEPT ![p].pc = "locked"]
    /\ UNCHANGED <<userUsage, committed>>

\* existing, exists := s.userUsage[userID]
RecordRead(p) ==
    /\ At(p, "record", "locked")
    /\ procs' = [procs EXCEPT
                    ![p].pc = "read",
                    ![p].exists = procs[p].userID \in DOMAIN userUsage,
                    ![p].existing = GetModelUsage(userUsage, procs[p].userID,
                                                  procs[p].model)]
    /\ UNCHANGED <<userUsage, usageLock, committed>>

\* the update of the local copy and s.userUsage[userID] = existing
RecordStore(p) ==
    /\ At(p, "record", "read")
    /\ userUsage' = StoreUsage(userUsage, procs[p].userID,
                       ModelUsageAfter(procs[p].exists, procs[p].existing,
                                       procs[p].userID, procs[p].model,
                                       procs[p].tokens))
    /\ procs' = [procs EXCEPT ![p].pc = "stored"]
    /\ UNCHANGED <<usageLock, committed>>

\* the deferred s.usageLock.Unlock(); the call returns
RecordUnlock(p) ==
    /\ At(p, "record", "stored")
    /\ usageLock' = [usageLock EXCEPT
                        !.writer = IF @ = p THEN 0 ELSE @]
    /\ procs' = [procs EXCEPT ![p].pc = "done"]
    /\ committed' = [count |-> committed.count + 1,
                     tokens |-> committed.tokens + procs[p].tokens]
    /\ UNCHANGED userUsage

\* GetModelUsage: s.usageLock.RLock()
GetRLock(p) ==
    /\ At(p, "get", "start")
    /\ CanRLock(usageLock)
    /\ usageLock' = [usageLock EXCEPT !.readers = @ \cup {p}]
    /\ procs' = [procs EXCEPT ![p].pc = "rlocked"]
    /\ UNCHANGED <<userUsage, committed>>

\* existing, exists := s.userUsage[userID], and what it returns
GetRead(p) ==
    /\ At(p, "get", "rlocked")
    /\ procs' = [procs EXCEPT
                    ![p].pc = "read",
                    ![p].exists = procs[p].userID \in DOMAIN userUsage,
                    ![p].existing = GetModelUsage(userUsage, procs[p].userID,
                                                  procs[p].model),
                    ![p].seen = committed]
    /\ UNCHANGED <<userUsage, usageLock, committed>>

\* the deferred s.usageLock.RUnlock(); the call returns
GetRUnlock(p) ==
    /\ At(p, "get", "read")
    /\ usageLock' = [usageLock EXCEPT !.readers = @ \ {p}]
    /\ procs' = [procs EXCEPT ![p].pc = "done"]
    /\ UNCHANGED <<userUsage, committed>>

UsageInit ==
    /\ ClockInit /\ TokenIdle /\ CredIdle /\ ResolveIdle /\ GatewayIdle
    /\ PolicyIdle /\ RelayIdle /\ AuthIdle
    /\ userUsage = EmptyUsage
    /\ usageLock = Unlocked
    /\ procs \in [Procs -> {Goroutine("get", 0)}
                             \cup {Goroutine("record", n) : n \in TokenAmounts}]
    /\ committed = [count |-> 0, tokens |-> 0]

UsageNext ==
    \/ \E p \in Procs : RecordLock(p) /\ UNCHANGED <<exceptUsage, clockVars>>
    \/ \E p \in Procs : RecordRead(p) /\ UNCHANGED <<exceptUsage, clockVars>>
    \/ \E p \in Procs : RecordStore(p) /\ UNCHANGED <<exceptUsage, clockVars>>
    \/ \E p \in Procs : RecordUnlock(p) /\ UNCHANGED <<exceptUsage, clockVars>>
    \/ \E p \in Procs : GetRLock(p) /\ UNCHANGED <<exceptUsage, clockVars>>
    \/ \E p \in Procs : GetRead(p) /\ UNCHANGED <<exceptUsage, clockVars>>
    \/ \E p \in Procs : GetRUnlock(p) /\ UNCHANGED <<exceptUsage, clockVars>>

SpecUsage == UsageInit /\ [][UsageNext]_vars

RECURSIVE SumTokens(_)
SumTokens(S) ==
    IF S = {} THEN 0
    ELSE LET p == CHOOSE q \in S : TRUE IN procs[p].tokens + SumTokens(S \ {p})

Recorders == {p \in Procs : procs[p].op = "record"}
Stored == {p \in Recorders : procs[p].pc \in {"stored", "done"}}
CallerUsage == GetModelUsage(userUsage, UsageCaller, Gpt4)

\* C10: at every moment the caller's request counter is the number of
\* RecordUsage calls that have written, and its token total the sum of
\* their tokens, so that N concurrent calls leave exactly N; and every
\* GetModelUsage returns the counter and total of the calls that had
\* returned when it read.
C10_NoLostUpdate ==
    /\ CallerUsage.RequestsThisMinute = Cardinality(Stored)
    /\ CallerUsage.TokensThisMinute = SumTokens(Stored)
    /\ \A p \in Procs :
          (procs[p].op = "get" /\ procs[p].pc \in {"read", "done"}) =>
              /\ procs[p].existing.RequestsThisMinute = procs[p].seen.count
              /\ procs[p].existing.TokensThisMinute = procs[p].seen.tokens

C10_Witness ==
    /\ Cardinality(Recorders) = MaxProcs
    /\ \A p \in Procs : procs[p].pc = "done"
    /\ \E p, q \in Procs : procs[p].tokens # procs[q].tokens
    /\ CallerUsage.RequestsThisMinute = MaxProcs

(***************************************************************************)
(* The usage counters, one call at a time: RecordUsage and GetModelUsage   *)
(* of llm.Service called in sequence on one Service.                       *)
(***************************************************************************)
MaxRecordCalls == 3

\* models.TokenUsage values: none, input only, and the pair the package's
\* test records
TokenUsages ==
    {[Input |-> 0, Output |-> 0], [Input |-> 1, Output |-> 0],
     [Input |-> 100, Output |-> 50]}

UsageModels == {CopilotChat, Gpt4}

\* the request counts a Service is taken up with: none recorded, or one
\* less than the per-minute ceiling of gpt-4
RecordStartCounts == {0, FindModel(Gpt4).MaxRequestsPerMinute - 1}

\* the usage maps with those counts, the recorded ones being user 1's
RecordStarts ==
    {Recorded(EmptyUsage, UsageCaller, Gpt4, n) : n \in RecordStartCounts}

\* fewer than MaxRecordCalls calls have been made since such a start
CallsLeft(count) ==
    \E start \in RecordStartCounts :
        start <= count /\ count < start + MaxRecordCalls

RecordUsageCall ==
    \E userID \in Users, model \in UsageModels, usage \in TokenUsages :
        LET before == GetModelUsage(userUsage, userID, model) IN
        /\ CallsLeft(before.RequestsThisMinute)
        /\ userUsage' = RecordUsage(userUsage, userID, model,
                                    usage.Input + usage.Output)
        /\ pcall' = [kind |-> "RecordUsage", userID |-> userID,
                     model |-> model, usage |-> usage,
                     exists |-> userID \in DOMAIN userUsage,
                     before |-> before, after |-> userUsage'[userID]]

GetModelUsageCall ==
    \E userID \in Users, model \in UsageModels :
        /\ pcall' = [kind |-> "GetModelUsage", userID |-> userID,
                     model |-> model,
                     out |-> GetModelUsage(userUsage, userID, model)]
        /\ UNCHANGED userUsage

RecordInit ==
    /\ ClockInit /\ TokenIdle /\ CredIdle /\ ResolveIdle /\ GatewayIdle
    /\ RelayIdle /\ AuthIdle
    /\ userUsage \in RecordStarts
    /\ usageLock = None /\ procs = <<>> /\ committed = None
    /\ pcall = None

exceptRecord ==
    <<clockVars, tokenVars, credVars, resolveVars, gatewayVars,
      usageLock, procs, committed, relayVars, authVars>>

RecordNext ==
    \/ RecordUsageCall /\ UNCHANGED exceptRecord
    \/ GetModelUsageCall /\ UNCHANGED exceptRecord

SpecRecord == RecordInit /\ [][RecordNext]_vars

\* C11: every RecordUsage call, the first for a user and the later ones,
\* adds one to the request count and adds usage.Input + usage.Output to
\* the per-minute token total and to the per-day token total.
C11_RecordUsageAddsToMinuteAndDay ==
    pcall.kind = "RecordUsage" =>
        LET tokens == pcall.usage.Input + pcall.usage.Output IN
        /\ pcall.after.RequestsThisMinute = pcall.before.RequestsThisMinute + 1
        /\ pcall.after.TokensThisMinute = pcall.before.TokensThisMinute + tokens
        /\ pcall.after.TokensThisDay = pcall.before.TokensThisDay + tokens

(***************************************************************************)
(* One chat completion from the request body to the response:              *)
(* HandleCompletion after validateToken, callCopilotAPI's payload, and the *)
(* two ways the vendor's reply is handed back.  A JSON object is the       *)
(* function from its member names to their values; a scalar value is its   *)
(* JSON text.  A message content is the sequence of its pieces.            *)
(***************************************************************************)
JsonTrue == "true"
JsonFalse == "false"

\* v.(bool): the value and whether the assertion holds
AssertBool(v) == [value |-> v = JsonTrue, ok |-> v \in {JsonTrue, JsonFalse}]

Member(obj, key) == IF key \in DOMAIN obj THEN obj[key] ELSE "null"

\* isStream, _ = incoming["stream"].(bool)
IsStream(incoming) == AssertBool(Member(incoming, "stream")).value

\* delete that leaves the map as it is
WithoutStream_Kept(incoming) == incoming

\* delete(incoming, "stream")
WithoutStream(incoming) ==
    [k \in DOMAIN incoming \ {"stream"} |-> incoming[k]]

\* a JSON number decoded into interface{} (a float64) and encoded again:
\* an integer above 2^53 comes back as the nearest float64, a decimal
\* with a zero fraction as an integer, a small integer as it was
Float64Text(number) ==
    IF number = "9007199254740993" THEN "9007199254740992"
    ELSE IF number = "1.0" THEN "1"
    ELSE number

\* the members that hold JSON numbers in the request bodies below
NumberMembers == {"seed"}

\* json.Unmarshal into map[string]interface{} followed by json.Marshal
Recoded(obj) ==
    [k \in DOMAIN obj |->
        IF k \in NumberMembers THEN Float64Text(obj[k]) ELSE obj[k]]

\* a provider_request member that is the empty string
EmptyJsonString == <<>>

\* a normalizer that sets the provider marker whatever the body holds
ParseParams_ProviderForced(clean) ==
    [Model |-> IF "model" \in DOMAIN clean /\ clean.model # <<>>
               THEN clean.model ELSE CopilotChat,
     ProviderRequest |-> Recoded([provider |-> "copilot"] @@ clean)]

\* the params HandleCompletion goes on with, from the cleaned body; the
\* provider_request string is the JSON object it holds, and a body
\* without one, or with an empty one, is taken for an OpenAI request
ParseParams(clean) ==
    IF /\ "provider_request" \in DOMAIN clean
       /\ DOMAIN clean.provider_request # DOMAIN EmptyJsonString
    THEN [Model |-> Member(clean, "model"),
          ProviderRequest |-> clean.provider_request]
    ELSE [Model |-> IF "model" \in DOMAIN clean /\ clean.model # <<>>
                    THEN clean.model ELSE CopilotChat,
          ProviderRequest |->
              Recoded(IF "provider" \in DOMAIN clean THEN clean
                      ELSE clean @@ [provider |-> "copilot"])]

\* callCopilotAPI: the JSON it posts to /chat/completions
RequestData(providerRequest, modelID) ==
    ([model |-> modelID] @@ Recoded(providerRequest))
        @@ [temperature |-> "0", top_p |-> "1", max_tokens |-> "4096"]

\* what callers put in the top-level "stream" member: nothing, a boolean,
\* a string, a number
StreamValues == {"absent", JsonTrue, JsonFalse, "\"true\"", "1"}

WithStream(obj, v) == IF v = "absent" THEN obj ELSE obj @@ [stream |-> v]

Messages == [messages |-> "[{\"role\":\"user\",\"content\":\"hi\"}]"]

(***************************************************************************)
(* The access policy: CheckRateLimit, ValidateAccess and                   *)
(* AuthorizeAccessForCountry are functions of their arguments; each action *)
(* is one call.                                                            *)
(***************************************************************************)
UnknownModel == <<"nonexistent-model">>
PolicyModels == {CopilotChat, Gpt4, Claude3Opus, UnknownModel}

MaxOver == 1

\* counter values around a ceiling: below it, at it, above it
Near(ceiling) == (ceiling - MaxOver)..(ceiling + MaxOver)

\* the ceilings usage is drawn around: the model's, or the first model's
\* for a name that is not in the table
CeilingsFor(modelName) ==
    IF FindModel(modelName) = None THEN DefaultModels[1]
    ELSE FindModel(modelName)

ModelUsage(userID, model, requests, tokens, input, output, day) ==
    [UserID |-> userID, Model |-> model,
     RequestsThisMinute |-> requests, TokensThisMinute |-> tokens,
     InputTokensThisMinute |-> input, OutputTokensThisMinute |-> output,
     TokensThisDay |-> day]

\* the usage records of TestCheckRateLimit and TestValidateAccess
TestUsages ==
    {ModelUsage(0, <<>>, 10, 1000, 500, 500, 5000),
     ModelUsage(0, <<>>, 0, 0, 0, 0, 0),
     ModelUsage(0, <<>>, 30, 0, 0, 0, 0),
     ModelUsage(0, <<>>, 100, 10000, 0, 0, 200000)}

Usages(modelName) ==
    LET c == CeilingsFor(modelName) IN
    TestUsages \cup
    {ModelUsage(1, modelName, r, t, i, o, d) :
        r \in Near(c.MaxRequestsPerMinute),
        t \in Near(c.MaxTokensPerMinute),
        i \in Near(c.MaxInputTokensPerMinute),
        o \in Near(c.MaxOutputTokensPerMinute),
        d \in Near(c.MaxTokensPerDay)}

\* country codes: "" is the nil pointer
CountryCodes == {"", "XX", "T1", "US", "DE"} \cup restrictedCountries

\* the arguments of one call, before the call
RateArgs(fn, modelName, usage) ==
    [kind |-> "args", fn |-> fn, model |-> modelName, usage |-> usage]

CountryArgs(countryCode) ==
    [kind |-> "args", fn |-> "AuthorizeAccessForCountry",
     countryCode |-> countryCode]

CheckRateLimitCall ==
    /\ pcall.kind = "args" /\ pcall.fn = "CheckRateLimit"
    /\ pcall' = [kind |-> "CheckRateLimit", model |-> pcall.model,
                 usage |-> pcall.usage,
                 err |-> CheckRateLimit(pcall.model, pcall.usage)]

ValidateAccessCall ==
    /\ pcall.kind = "args" /\ pcall.fn = "ValidateAccess"
    /\ pcall' = [kind |-> "ValidateAccess", model |-> pcall.model,
                 usage |-> pcall.usage,
                 err |-> ValidateAccess(validateTokenDisabled,
                                        pcall.model, pcall.usage)]

AuthorizeAccessForCountryCall ==
    /\ pcall.kind = "args" /\ pcall.fn = "AuthorizeAccessForCountry"
    /\ pcall' = [kind |-> "AuthorizeAccessForCountry",
                 countryCode |-> pcall.countryCode,
                 err |-> AuthorizeAccessForCountry(pcall.countryCode)]

Gpt4oM == <<"gpt-4", "o", "-m">>
Gpt4oMini == <<"gpt-4", "o", "-m", "ini">>

\* a catalog entry whose display name differs from its id
Named(id, name) == [ID |-> id, Name |-> name]

\* catalogs FetchModels may return
Catalogs ==
    {<<>>,
     <<VendorModel(Gpt4o), VendorModel(Gpt4oMini)>>,
     <<VendorModel(Gpt4oMini), VendorModel(Gpt4o)>>,
     <<VendorModel(Gpt4), VendorModel(CopilotChat)>>,
     <<Named(Gpt4oMini, <<"GPT-4o mini">>), Named(Gpt4, <<"GPT-4">>)>>}

\* req.Model values: ids, the start of one, a piece of one, a display
\* name, the empty string, a name no catalog has
WantedModels ==
    {Gpt4o, Gpt4oM, Gpt4oMini, Gpt4, CopilotChat, <<"ini">>, <<"GPT-4">>,
     <<>>, UnknownModel}

SelectArgs(copilotModels, reqModel) ==
    [kind |-> "args", fn |-> "SelectModel", copilotModels |-> copilotModels,
     model |-> reqModel]

SelectModelCall ==
    /\ pcall.kind = "args" /\ pcall.fn = "SelectModel"
    /\ pcall' = [kind |-> "SelectModel",
                 copilotModels |-> pcall.copilotModels, model |-> pcall.model,
                 modelID |-> SelectModel(pcall.copilotModels, pcall.model)]

\* the request callCopilotAPI sends, for a Config that names no editor
\* versions
ChatRequest(apiKey, modelID) ==
    [path |-> "/chat/completions", Authorization |-> <<"Bearer ", apiKey>>,
     EditorVersion |-> "vscode/1.99.2",
     EditorPluginVersion |-> "copilot-chat/0.26.3", model |-> modelID]

\* PerformCompletion for a request with a provider request that parses:
\* its error ("nil" for none), the request it sent to the vendor's chat
\* endpoint if it sent one, and the response it returns
PerformCompletion(apiKey, fetched, usage, token, reqModel, chat) ==
    LET failed(err, sent) == [err |-> err, sent |-> sent, response |-> None]
    IN
    IF apiKey = EmptyString \/ fetched.kind # "ok"
    THEN failed("failed to fetch models", None)
    ELSE LET modelID == SelectModel(fetched.data, reqModel)
             access == ValidateAccess(token, modelID,
                          GetModelUsage(usage, token.UserID, modelID))
         IN
         IF modelID = <<>> THEN failed("unknown model", None)
         ELSE IF access # "nil" THEN failed(access, None)
         ELSE IF chat.kind = "neterr"
         THEN failed("vendor unreachable", ChatRequest(apiKey, modelID))
         ELSE [err |-> "nil", sent |-> ChatRequest(apiKey, modelID),
               response |-> chat]

\* the Service the calls are made on: its key and its usage map
Services ==
    {[apiKey |-> k, usage |-> u] :
        k \in {EmptyString, GoodCred(1)}, u \in ServedBefore}

\* the CF-IPCountry headers of completion requests
CompletionCountries == {"", "US", "T1", "CN"}

CompletionArgs(service, fetched, reqModel, country, chat) ==
    [kind |-> "args", fn |-> "PerformCompletion", service |-> service,
     fetched |-> fetched, model |-> reqModel, country |-> country,
     chat |-> chat]

\* HandleCompletion's call: req.CountryCode is getCountryCode(r), a field
\* PerformCompletion does not read
PerformCompletionCall ==
    /\ pcall.kind = "args" /\ pcall.fn = "PerformCompletion"
    /\ pcall' = [kind |-> "PerformCompletion", service |-> pcall.service,
                 fetched |-> pcall.fetched, model |-> pcall.model,
                 CountryCode |-> getCountryCode(pcall.country),
                 chat |-> pcall.chat,
                 out |-> PerformCompletion(pcall.service.apiKey,
                            pcall.fetched, pcall.service.usage,
                            validateTokenDisabled, pcall.model, pcall.chat)]

\* upstream model lists as HandleListModels decodes them: maps, one of
\* them with an "object" member of its own
UpstreamData ==
    {<<>>, <<VendorModel(CopilotChat)>>,
     <<VendorModel(Gpt4o), [object |-> "other"] @@ VendorModel(Gpt4)>>,
     <<VendorModel(Gpt4), VendorModel(Gpt4o), VendorModel(CopilotChat)>>}

ListArgs(country, data) ==
    [kind |-> "args", fn |-> "HandleListModels", country |-> country,
     data |-> data]

\* HandleListModels from the decoded upstream list on: the body it writes
ListModelsCall ==
    /\ pcall.kind = "args" /\ pcall.fn = "HandleListModels"
    /\ pcall' = [kind |-> "HandleListModels", country |-> pcall.country,
                 data |-> pcall.data,
                 body |-> [kind |-> "list",
                           data |-> FilterModels(getCountryCode(pcall.country),
                                       validateTokenDisabled, pcall.data)]]

\* members a raw chat request may hold next to its messages
Optional(key, values) == {<<>>} \cup {[k \in {key} |-> v] : v \in values}

\* raw chat requests: a model or none or the empty string, a provider or
\* none, a stream flag, a seed, an empty provider_request
RawBodies ==
    {((((m @@ p) @@ st) @@ sd) @@ pr) @@ Messages :
        m \in Optional("model", {Gpt4, <<>>}),
        p \in Optional("provider", {"\"openai\""}),
        st \in Optional("stream", {JsonTrue}),
        sd \in Optional("seed", {"7", "1.0", "9007199254740993"}),
        pr \in Optional("provider_request", {EmptyJsonString})}

NormalizeArgs(incoming, modelID) ==
    [kind |-> "args", fn |-> "Normalize", incoming |-> incoming,
     modelID |-> modelID]

\* HandleCompletion from the decoded body to the payload callCopilotAPI
\* posts for the model id PerformCompletion resolved
NormalizeCall ==
    /\ pcall.kind = "args" /\ pcall.fn = "Normalize"
    /\ LET params == ParseParams(WithoutStream(pcall.incoming)) IN
       pcall' = [kind |-> "Normalize", incoming |-> pcall.incoming,
                 modelID |-> pcall.modelID, params |-> params,
                 payload |-> RequestData(params.ProviderRequest,
                                         pcall.modelID)]

PolicyInit ==
    /\ ClockInit /\ TokenIdle /\ CredIdle /\ ResolveIdle /\ GatewayIdle
    /\ UsageIdle /\ RelayIdle /\ AuthIdle
    /\ \/ \E fn \in {"CheckRateLimit", "ValidateAccess"} :
             \E modelName \in PolicyModels :
                 \E usage \in Usages(modelName) :
                     pcall = RateArgs(fn, modelName, usage)
       \/ \E countryCode \in CountryCodes : pcall = CountryArgs(countryCode)
       \/ \E copilotModels \in Catalogs :
             \E reqModel \in WantedModels :
                 pcall = SelectArgs(copilotModels, reqModel)
       \/ \E service \in Services :
             \E fetched \in {[kind |-> "status", data |-> <<>>]}
                              \cup {[kind |-> "ok", data |-> l] : l \in Catalogs} :
                 \E reqModel \in WantedModels :
                     \E country \in CompletionCountries :
                         \E chat \in ChatReplies :
                             pcall = CompletionArgs(service, fetched, reqModel,
                                                    country, chat)
       \/ \E country \in CountryHeaders \cup {"XX", "KP"} :
             \E data \in UpstreamData : pcall = ListArgs(country, data)
       \/ \E incoming \in RawBodies :
             \E modelID \in {Gpt4, Gpt4o} :
                 pcall = NormalizeArgs(incoming, modelID)

exceptPolicy ==
    <<clockVars, tokenVars, credVars, resolveVars, gatewayVars, usageVars,
      relayVars, authVars>>

PolicyNext ==
    \/ CheckRateLimitCall /\ UNCHANGED exceptPolicy
    \/ ValidateAccessCall /\ UNCHANGED exceptPolicy
    \/ AuthorizeAccessForCountryCall /\ UNCHANGED exceptPolicy
    \/ SelectModelCall /\ UNCHANGED exceptPolicy
    \/ PerformCompletionCall /\ UNCHANGED exceptPolicy
    \/ ListModelsCall /\ UNCHANGED exceptPolicy
    \/ NormalizeCall /\ UNCHANGED exceptPolicy

SpecPolicy == PolicyInit /\ [][PolicyNext]_vars

C13_NoErrorIffKnownAndWithinCeilings ==
    pcall.kind = "CheckRateLimit" =>
        LET model == FindModel(pcall.model)
            usage == pcall.usage
        IN /\ (pcall.err = "nil") <=>
                  /\ model # None
                  /\ usage.RequestsThisMinute <= model.MaxRequestsPerMinute
                  /\ usage.TokensThisMinute <= model.MaxTokensPerMinute
                  /\ usage.InputTokensThisMinute <= model.MaxInputTokensPerMinute
                  /\ usage.OutputTokensThisMinute <= model.MaxOutputTokensPerMinute
                  /\ usage.TokensThisDay <= model.MaxTokensPerDay
           /\ model = None =>
                  /\ pcall.err = "unknown model"
                  /\ ~IsRateLimitExceeded(pcall.err)
           /\ (model # None /\ pcall.err # "nil") =>
                  IsRateLimitExceeded(pcall.err)

C13_Witness ==
    /\ pcall.kind = "CheckRateLimit"
    /\ pcall.model = CopilotChat
    /\ pcall.usage.RequestsThisMinute = 25
    /\ pcall.usage.TokensThisMinute = 5000
    /\ pcall.usage.InputTokensThisMinute = 2500
    /\ pcall.usage.OutputTokensThisMinute = 2500
    /\ pcall.usage.TokensThisDay = 100000
    /\ pcall.err = "nil"

\* C14: ValidateAccess returns no error for a model of the table whatever
\* the usage, usage above the per-minute and per-day ceilings included.
C14_ValidateAccessAlwaysAllows ==
    (pcall.kind = "ValidateAccess" /\ FindModel(pcall.model) # None) =>
        pcall.err = "nil"

C16_NoCountryAllowed ==
    pcall.kind = "AuthorizeAccessForCountry" =>
        /\ pcall.countryCode \in {"", "XX", "US"} => pcall.err = "nil"
        /\ pcall.countryCode \in restrictedCountries =>
               pcall.err = "ErrRestrictedRegion"
        /\ pcall.countryCode = "T1" => pcall.err = "ErrTorNetwork"

\* request bodies: an OpenAI chat request, the internal form whose
\* provider_request is the vendor payload, and a body that is no JSON object
RelayBodies ==
    {[json |-> "object", obj |-> WithStream([model |-> Gpt4] @@ Messages, v)] :
        v \in StreamValues}
    \cup {[json |-> "object",
           obj |-> WithStream([model |-> Gpt4,
                               provider_request |-> WithStream(Messages, i)], v)] :
             v \in StreamValues, i \in {"absent", JsonTrue}}
    \cup {[json |-> "other", obj |-> <<>>]}

ZeroUsage == [PromptTokens |-> 0, CompletionTokens |-> 0, TotalTokens |-> 0]

\* one line of the vendor's reply
Line(prefix, kind, choices, hasContent, content, hasUsage, usage) ==
    [prefix |-> prefix, kind |-> kind, choices |-> choices,
     hasContent |-> hasContent, content |-> content,
     hasUsage |-> hasUsage, usage |-> usage]

Chunk(piece) == Line(TRUE, "json", 1, TRUE, <<piece>>, FALSE, ZeroUsage)
SomeUsage == [PromptTokens |-> 1, CompletionTokens |-> 2, TotalTokens |-> 3]
RoleChunk == Line(TRUE, "json", 1, FALSE, <<>>, TRUE, SomeUsage)
UsageChunk == Line(TRUE, "json", 0, FALSE, <<>>, TRUE, SomeUsage)
BadJson == Line(TRUE, "badjson", 0, FALSE, <<>>, FALSE, ZeroUsage)
Done == Line(TRUE, "[DONE]", 0, FALSE, <<>>, FALSE, ZeroUsage)
\* a chunk that does not start with "data: "
Unprefixed == Line(FALSE, "json", 1, TRUE, <<"X">>, FALSE, ZeroUsage)

Lines == {Chunk("Hel"), Chunk("lo"), RoleChunk, UsageChunk, BadJson, Done,
          Unprefixed}

MaxLines == 3

Upstreams == UNION {[1..n -> Lines] : n \in 0..MaxLines}

\* PerformCompletion's outcomes: refused before the call, the call failing,
\* a status that is not 200, and 200 with a body that ends or breaks off
RelayReplies ==
    {[kind |-> k, lines |-> <<>>] : k \in {"refused", "neterr", "status"}}
        \cup {[kind |-> k, lines |-> u] : k \in {"eof", "readerr"},
                                         u \in Upstreams}

\* the scan loop's body with the sentinel taken for a line that is no JSON
ScanStep_NoSentinel(acc, line) ==
    IF ~line.prefix \/ line.kind # "json" \/ line.choices = 0
    THEN [full |-> acc.full, usage |-> acc.usage, stop |-> FALSE]
    ELSE [full |-> IF line.hasContent THEN acc.full \o line.content
                   ELSE acc.full,
          usage |-> IF line.hasUsage THEN line.usage ELSE acc.usage,
          stop |-> FALSE]

\* the scan loop's body: the buffer and the usage after the line, and
\* whether the loop breaks
ScanStep(acc, line) ==
    IF ~line.prefix
    THEN [full |-> acc.full, usage |-> acc.usage, stop |-> FALSE]
    ELSE IF line.kind = "[DONE]"
    THEN [full |-> acc.full, usage |-> acc.usage, stop |-> TRUE]
    ELSE IF line.kind # "json" \/ line.choices = 0
    THEN [full |-> acc.full, usage |-> acc.usage, stop |-> FALSE]
    ELSE [full |-> IF line.hasContent THEN acc.full \o line.content
                   ELSE acc.full,
          usage |-> IF line.hasUsage THEN line.usage ELSE acc.usage,
          stop |-> FALSE]

\* the chat.completion object written after the loop
ChatCompletion(model, full, usage) ==
    [status |-> 200, kind |-> "chat.completion",
     body |-> [object |-> "chat.completion", model |-> model,
               role |-> "assistant", content |-> full,
               finish_reason |-> "stop", usage |-> usage]]

RelayError(status, message, errType) ==
    [status |-> status, kind |-> "error",
     body |-> writeOpenAIError(status, message, errType).body]

\* NewService: http.Client{Timeout: 30 * time.Second}, in seconds; the
\* deadline runs from Do to the last read of the response body
ClientTimeout == 30

\* the time the vendor takes to send its next line
LineDelays == {0, ClientTimeout \div 2}

\* whether the client's deadline can pass before the next read returns
DeadlineNear(elapsed) == \E delay \in LineDelays : elapsed + delay >= ClientTimeout

\* why the read of the body returns no further line: the vendor ended or
\* broke the body, or, for a body that breaks off, the deadline passed
EndCauses(reply, elapsed) ==
    IF reply.kind = "readerr" /\ DeadlineNear(elapsed)
    THEN {"upstream", "timeout"}
    ELSE {"upstream"}

Received(body) ==
    [phase |-> "received", body |-> body, isStream |-> FALSE,
     model |-> <<>>, calls |-> <<>>, reply |-> None, pos |-> 1,
     full |-> <<>>, usage |-> ZeroUsage, sawDone |-> FALSE,
     writes |-> 0, out |-> None, written |-> <<>>, flushes |-> 0,
     elapsed |-> 0, ended |-> "", clientGone |-> FALSE, writeErrs |-> 0,
     afterWriteErr |-> 0]

\* HandleCompletion from the body to the vendor's answer
StartCompletion ==
    /\ relay.phase = "received"
    /\ IF relay.body.json # "object"
       THEN /\ relay' = [relay EXCEPT
                   !.phase = "replied", !.writes = 1,
                   !.out = RelayError(400, "invalid request body",
                                      "invalid_request_error")]
            /\ UNCHANGED userUsage
       ELSE LET incoming == relay.body.obj
                isStream == IsStream(incoming)
                params == ParseParams(WithoutStream(incoming))
                payload == RequestData(params.ProviderRequest, params.Model)
                called == [relay EXCEPT !.isStream = isStream,
                                        !.model = params.Model]
            IN \E reply \in RelayReplies :
               IF reply.kind = "refused"
               THEN /\ relay' = [called EXCEPT
                           !.phase = "replied", !.reply = reply, !.writes = 1,
                           !.out = RelayError(400, "refused",
                                              "invalid_request_error")]
                    /\ UNCHANGED userUsage
               ELSE IF reply.kind = "neterr"
               THEN /\ relay' = [called EXCEPT
                           !.phase = "replied", !.reply = reply,
                           !.calls = <<payload>>, !.writes = 1,
                           !.out = RelayError(400, "vendor unreachable",
                                              "invalid_request_error")]
                    /\ UNCHANGED userUsage
               ELSE IF reply.kind = "status"
               THEN /\ relay' = [called EXCEPT
                           !.phase = "replied", !.reply = reply,
                           !.calls = <<payload>>, !.writes = 1,
                           !.out = RelayError(500, "API returned error",
                                              "internal_error")]
                    /\ UNCHANGED userUsage
               ELSE /\ relay' = [called EXCEPT
                           !.phase = IF isStream THEN "copying" ELSE "scanning",
                           !.reply = reply, !.calls = <<payload>>,
                           !.out = IF isStream
                                   THEN [status |-> 200, kind |-> "sse",
                                         body |-> None]
                                   ELSE None]
                    /\ userUsage' = RecordUsage(userUsage, UsageCaller,
                                                params.Model, RecordedTokens)

\* scanner.Scan() returns a line
ScanLine ==
    /\ relay.phase = "scanning"
    /\ relay.pos <= Len(relay.reply.lines)
    /\ \E delay \in LineDelays :
         /\ relay.elapsed + delay < ClientTimeout
         /\ LET step == ScanStep([full |-> relay.full,
                                  usage |-> relay.usage],
                                 relay.reply.lines[relay.pos])
            IN relay' =
                 IF step.stop
                 THEN [relay EXCEPT
                         !.phase = "replied", !.sawDone = TRUE,
                         !.writes = @ + 1, !.elapsed = @ + delay,
                         !.ended = "sentinel",
                         !.out = ChatCompletion(relay.model, step.full,
                                                step.usage)]
                 ELSE [relay EXCEPT !.pos = @ + 1, !.full = step.full,
                                    !.usage = step.usage,
                                    !.elapsed = @ + delay]
    /\ UNCHANGED userUsage

\* scanner.Scan() returns false: the body ended or the read failed
ScanEnd ==
    /\ relay.phase = "scanning"
    /\ relay.pos > Len(relay.reply.lines)
    /\ \E cause \in EndCauses(relay.reply, relay.elapsed) :
         relay' = [relay EXCEPT
                     !.phase = "replied", !.writes = @ + 1,
                     !.ended = cause,
                     !.out = ChatCompletion(relay.model, relay.full,
                                            relay.usage)]
    /\ UNCHANGED userUsage

\* a copy loop that hands on only the lines that start with "data: "
CopyStep_DataOnly(written, line) ==
    IF line.prefix THEN Append(written, line) ELSE written

\* w.Write(line): what the caller has been sent after it
CopyStep(written, line) == Append(written, line)

\* the caller closes its connection while the stream is copied; from
\* then on w.Write returns an error
ClientCloses ==
    /\ relay.phase = "copying"
    /\ ~relay.clientGone
    /\ relay' = [relay EXCEPT !.clientGone = TRUE]
    /\ UNCHANGED userUsage

\* the Write and Flush calls of one turn of the copy loop that come after
\* a Write that failed: both once one has failed, the Flush when this
\* turn's Write is the first to fail
CallsAfterWriteErr(writeErrs, clientGone) ==
    IF writeErrs > 0 THEN 2 ELSE IF clientGone THEN 1 ELSE 0

\* bufReader.ReadBytes returns a line: it is handed to w.Write as it is,
\* the result of Write is dropped, and Flush is called
CopyLine ==
    /\ relay.phase = "copying"
    /\ relay.pos <= Len(relay.reply.lines)
    /\ \E delay \in LineDelays :
         /\ relay.elapsed + delay < ClientTimeout
         /\ relay' = [relay EXCEPT
                    !.pos = @ + 1,
                    !.written = CopyStep(@, relay.reply.lines[relay.pos]),
                    !.flushes = @ + 1,
                    !.elapsed = @ + delay,
                    !.writeErrs = IF relay.clientGone THEN @ + 1 ELSE @,
                    !.afterWriteErr =
                        @ + CallsAfterWriteErr(relay.writeErrs,
                                               relay.clientGone)]
    /\ UNCHANGED userUsage

\* bufReader.ReadBytes returns an error
CopyEnd ==
    /\ relay.phase = "copying"
    /\ relay.pos > Len(relay.reply.lines)
    /\ \E cause \in EndCauses(relay.reply, relay.elapsed) :
         relay' = [relay EXCEPT !.phase = "replied", !.ended = cause]
    /\ UNCHANGED userUsage

RelayInit ==
    /\ ClockInit /\ TokenIdle /\ CredIdle /\ ResolveIdle /\ GatewayIdle
    /\ PolicyIdle /\ AuthIdle
    /\ userUsage = EmptyUsage
    /\ usageLock = None /\ procs = <<>> /\ committed = None
    /\ \E body \in RelayBodies : relay = Received(body)

exceptRelay ==
    <<clockVars, tokenVars, credVars, resolveVars, gatewayVars,
      usageLock, procs, committed, policyVars, authVars>>

RelayNext ==
    \/ StartCompletion /\ UNCHANGED exceptRelay
    \/ ScanLine /\ UNCHANGED exceptRelay
    \/ ScanEnd /\ UNCHANGED exceptRelay
    \/ CopyLine /\ UNCHANGED exceptRelay
    \/ CopyEnd /\ UNCHANGED exceptRelay
    \/ ClientCloses /\ UNCHANGED exceptRelay

SpecRelay == RelayInit /\ [][RelayNext]_vars

\* C17: every outbound chat-completion call asks the vendor for a streamed
\* response, whether or not the caller asked for one: the payload's
\* "stream" member is true.
C17_VendorAlwaysAskedToStream ==
    \A i \in DOMAIN relay.calls :
        /\ "stream" \in DOMAIN relay.calls[i]
        /\ relay.calls[i].stream = JsonTrue

\* C18: a completion is handed back as an SSE stream exactly when the
\* caller's top-level "stream" member is the boolean true, and as one
\* aggregated JSON object when it is absent, false or no boolean; and the
\* payload sent to the vendor never holds the caller's top-level "stream":
\* it has a "stream" member only when provider_request has one, and then
\* that one.
C18_PackagingFollowsStreamFlag ==
    LET obj == relay.body.obj
        asked == "stream" \in DOMAIN obj /\ obj.stream = JsonTrue
    IN /\ relay.out.kind \in {"sse", "chat.completion"} =>
              relay.out.kind = IF asked THEN "sse" ELSE "chat.completion"
       /\ \A i \in DOMAIN relay.calls :
              IF "provider_request" \in DOMAIN obj
              THEN /\ ("stream" \in DOMAIN relay.calls[i])
                          <=> ("stream" \in DOMAIN obj.provider_request)
                   /\ Member(relay.calls[i], "stream")
                          = Member(obj.provider_request, "stream")
              ELSE "stream" \notin DOMAIN relay.calls[i]

C18_Witness ==
    /\ relay.out.kind = "chat.completion"
    /\ "provider_request" \notin DOMAIN relay.body.obj
    /\ "stream" \in DOMAIN relay.body.obj
    /\ relay.body.obj.stream = "\"true\""
    /\ Len(relay.calls) = 1
    /\ "stream" \notin DOMAIN relay.calls[1]

\* the lines in front of the first "data: [DONE]" line
BeforeSentinel(lines) ==
    LET sentinels == {i \in 1..Len(lines) :
                         lines[i].prefix /\ lines[i].kind = "[DONE]"}
    IN IF sentinels = {} THEN lines
       ELSE SubSeq(lines, 1,
                   (CHOOSE i \in sentinels : \A j \in sentinels : i <= j) - 1)

\* the choices[0].delta.content strings of the "data: <json>" lines, in
\* order, joined
RECURSIVE DeltaContents(_)
DeltaContents(lines) ==
    IF lines = <<>> THEN <<>>
    ELSE LET line == Head(lines) IN
         (IF line.prefix /\ line.kind = "json" /\ line.choices > 0
             /\ line.hasContent
          THEN line.content ELSE <<>>) \o DeltaContents(Tail(lines))

\* C19: in aggregated mode the content of the response message is the
\* concatenation, in stream order, of choices[0].delta.content of every
\* "data: <json>" line in front of the "data: [DONE]" line; lines without
\* the "data: " prefix and lines behind the sentinel add nothing.
C19_AggregatedContent ==
    relay.out.kind = "chat.completion" =>
        relay.out.body.content = DeltaContents(BeforeSentinel(relay.reply.lines))

C19_Witness ==
    /\ relay.out.kind = "chat.completion"
    /\ relay.reply.lines = <<Chunk("Hel"), Chunk("lo"), Done>>
    /\ relay.out.body.content = <<"Hel", "lo">>

\* C20: in aggregated mode one chat.completion object is written per
\* request, and only once the "data: [DONE]" line has been read: a vendor
\* stream that ends or fails before it gives no completed response with
\* finish_reason "stop".
C20_CompletionOnlyAfterSentinel ==
    /\ relay.writes <= 1
    /\ (relay.out.kind = "chat.completion"
           /\ relay.out.body.finish_reason = "stop") => relay.sawDone

\* C21: in streaming mode what has been written to the caller is at every
\* moment a prefix of the vendor's lines: each line read, with or without
\* the "data: " prefix, is written as it is, in order, with one flush per
\* line; nothing is added when the vendor's stream ends early; and when
\* the stream was delivered to its "data: [DONE]" line the output ends
\* with that line.
C21_PassthroughIsPrefix ==
    relay.phase \in {"copying", "replied"} /\ relay.out.kind = "sse" =>
        LET lines == relay.reply.lines
            n == Len(relay.written)
        IN /\ n <= Len(lines)
           /\ relay.written = SubSeq(lines, 1, n)
           /\ n = relay.pos - 1
           /\ relay.flushes = n
           /\ relay.phase = "replied" =>
                  /\ relay.written = lines
                  /\ (lines # <<>> /\ lines[Len(lines)] = Done) =>
                         relay.written[n] = Done

C21_Witness ==
    /\ relay.phase = "replied" /\ relay.out.kind = "sse"
    /\ relay.reply.lines = <<Chunk("Hel"), Unprefixed, Done>>
    /\ relay.written = relay.reply.lines
    /\ relay.flushes = 3

\* the vendor calls of the last response that went to /chat/completions
ChatCalls ==
    {i \in 1..Len(resp.vendor) : resp.vendor[i].path = "/chat/completions"}

\* C22: a completion request that succeeds (the vendor answered 200 and
\* the answer went to the caller, streamed or aggregated) adds exactly one
\* request, with its tokens, to the caller's usage and touches no other
\* user's; a request to either endpoint that is refused (token, body,
\* unknown model, rate limit, missing credential, vendor unreachable or
\* not 200) leaves the usage map as it was.
C22_UsageRecordedOncePerSuccess ==
    [][now' = now =>
          IF resp'.endpoint = "completion" /\ resp'.status = 200
          THEN LET userID == resp'.claims.UserID
                   before == GetModelUsage(userUsage, userID,
                                           resp'.body.model)
               IN /\ DOMAIN userUsage' = DOMAIN userUsage \cup {userID}
                  /\ \A u \in DOMAIN userUsage \ {userID} :
                         userUsage'[u] = userUsage[u]
                  /\ userUsage'[userID].RequestsThisMinute =
                         before.RequestsThisMinute + 1
                  /\ userUsage'[userID].TokensThisMinute =
                         before.TokensThisMinute + RecordedTokens
          ELSE userUsage' = userUsage]_vars

C22_Witness ==
    /\ resp.kind = "response" /\ resp.endpoint = "completion"
    /\ resp.status = 200 /\ resp.body.kind = "chat.completion"
    /\ disableAuth = "" /\ resp.claims.UserID = 1
    /\ DOMAIN userUsage = {1}
    /\ userUsage[1].RequestsThisMinute = 1
    /\ userUsage[1].TokensThisMinute = RecordedTokens

ErrorWith(messages) ==
    /\ resp.kind = "response" /\ resp.body.kind = "error"
    /\ resp.body.error.message \in messages

RateLimited ==
    /\ resp.kind = "response" /\ resp.body.kind = "error"
    /\ IsRateLimitExceeded(resp.body.error.message)

\* C26: a token failure is answered 401, a rate-limit rejection 429, a
\* missing vendor credential or a vendor failure (no answer, or a status
\* other than 200) 500 or 502, and a malformed body 400.
C26_StatusByCause ==
    /\ ErrorWith({"token expired", "unauthorized"}) => resp.status = 401
    /\ RateLimited => resp.status = 429
    /\ (ErrorWith({"missing Copilot API key", "failed to fetch models"})
            /\ cfgKey = EmptyString) => resp.status \in {500, 502}
    /\ (resp.kind = "response" /\ resp.vendor # <<>>
            /\ ErrorWith({"neterr", "status", "failed to fetch models",
                          "vendor unreachable", "API returned error"}))
          => resp.status \in {500, 502}
    /\ ErrorWith({"error reading request body", "invalid request body"})
          => resp.status = 400

\* C27: the response to a completion refused for a rate limit carries
\* Retry-After: 60, and no other response carries a Retry-After header.
C27_RetryAfterOnRateLimit ==
    resp.kind = "response" =>
        /\ RateLimited => resp.retryAfter = "60"
        /\ ~RateLimited => resp.retryAfter = ""

\* C28: every response of the two endpoints with a status other than 200
\* has the error envelope as its body: an error object with exactly the
\* members message, type, param and code, the last two null; and the
\* envelope is never sent with status 200.
C28_ErrorEnvelope ==
    resp.kind = "response" =>
        /\ resp.status # 200 <=> resp.body.kind = "error"
        /\ resp.body.kind = "error" =>
              /\ DOMAIN resp.body = {"kind", "error"}
              /\ DOMAIN resp.body.error = {"message", "type", "param", "code"}
              /\ resp.body.error.param = "null"
              /\ resp.body.error.code = "null"
              /\ resp.status \in {400, 401, 500, 502}

C28_Witness ==
    /\ resp.kind = "response" /\ resp.endpoint = "models"
    /\ resp.status = 502 /\ resp.body.kind = "error"
    /\ resp.body.error.type = "api_error"
    /\ resp.body.error.param = "null"

\* C29: X-LLM-Token-Expired: true is on a response exactly when auth is
\* enabled and the request's token, signed with the server's secret, had
\* expired; it is not on the response to a request without the header,
\* with a malformed token or with a token of another signature, nor on
\* the response to an accepted request.
C29_ExpiredHeaderIffExpired ==
    resp.kind = "response" =>
        (resp.expiredHeader <=>
            /\ AuthEnabled
            /\ resp.auth.kind = "bearer"
            /\ resp.auth.tok.kind = "jwt"
            /\ resp.auth.tok.sig = LLMSecret
            /\ resp.at >= resp.auth.tok.exp)

\* the catalog entries whose id or name is the requested name
ExactMatches(copilotModels, reqModel) ==
    {i \in 1..Len(copilotModels) :
        copilotModels[i].ID = reqModel \/ copilotModels[i].Name = reqModel}

\* C24: model resolution fails only when no catalog entry has the
\* requested name as its id, its name, the start of its id or a part of
\* its id; when an entry has it as its id or name, such an entry is the
\* one chosen, whatever the order of the catalog; and in the catalog
\* [gpt-4o, gpt-4o-mini] the name "gpt-4o-m" resolves to gpt-4o-mini.
C24_ExactMatchWins ==
    pcall.kind = "SelectModel" =>
        LET catalog == pcall.copilotModels
            exact == ExactMatches(catalog, pcall.model)
        IN /\ pcall.modelID = <<>> <=>
                 \A i \in 1..Len(catalog) :
                     ~Contains(catalog[i].ID, pcall.model)
                         /\ catalog[i].Name # pcall.model
           /\ exact # {} => \E i \in exact : pcall.modelID = catalog[i].ID
           /\ (catalog = <<VendorModel(Gpt4o), VendorModel(Gpt4oMini)>>
                  /\ pcall.model = Gpt4oM) => pcall.modelID = Gpt4oMini

\* C25: PerformCompletion on a Service with a key, for a model that is in
\* the fetched catalog and a caller without recorded usage, sends the
\* request to the vendor's chat endpoint with the key as bearer
\* credential and the editor headers, and when the vendor answers returns
\* that answer and no error.
C25_CatalogModelIsServed ==
    (/\ pcall.kind = "PerformCompletion"
     /\ pcall.service.apiKey # EmptyString
     /\ pcall.service.usage = EmptyUsage
     /\ pcall.fetched.kind = "ok"
     /\ ExactMatches(pcall.fetched.data, pcall.model) # {}
     /\ pcall.chat.kind = "status") =>
        /\ pcall.out.err = "nil"
        /\ pcall.out.response = pcall.chat
        /\ pcall.out.sent # None
        /\ pcall.out.sent.Authorization = <<"Bearer ", pcall.service.apiKey>>
        /\ pcall.out.sent.EditorVersion = "vscode/1.99.2"
        /\ pcall.out.sent.EditorPluginVersion = "copilot-chat/0.26.3"

\* C30: the body of a model-list answer is a list whose data is, for a
\* request from a country the access policy lets through, every upstream
\* entry in upstream order, each with its members kept and "object" set
\* to "model", and for any other request (no country, the placeholder,
\* TOR, a deny-listed country) empty.
C30_ListIsFilteredCatalog ==
    pcall.kind = "HandleListModels" =>
        LET allowed == pcall.country \notin
                          {"", "XX", "T1"} \cup restrictedCountries
            out == pcall.body.data
        IN /\ pcall.body.kind = "list"
           /\ ~allowed => out = <<>>
           /\ allowed =>
                 /\ Len(out) = Len(pcall.data)
                 /\ \A i \in 1..Len(out) :
                       /\ DOMAIN out[i] = DOMAIN pcall.data[i] \cup {"object"}
                       /\ out[i].object = "model"
                       /\ \A k \in DOMAIN pcall.data[i] \ {"object"} :
                              out[i][k] = pcall.data[i][k]

C30_Witness ==
    /\ pcall.kind = "HandleListModels" /\ pcall.country = "US"
    /\ pcall.data = <<VendorModel(Gpt4o),
                      [object |-> "other"] @@ VendorModel(Gpt4)>>
    /\ Len(pcall.body.data) = 2
    /\ pcall.body.data[2].object = "model"
    /\ pcall.body.data[2].ID = Gpt4

\* the counters of a usage record
Counters ==
    {"RequestsThisMinute", "TokensThisMinute", "InputTokensThisMinute",
     "OutputTokensThisMinute", "TokensThisDay"}

\* the rate check refuses the user's usage for the model
OverCeiling(usage, userID, model) ==
    IsRateLimitExceeded(CheckRateLimit(model,
                                       GetModelUsage(usage, userID, model)))

C38_UsagePerCallerAndModel ==
    /\ pcall.kind = "GetModelUsage" => pcall.out.Model = pcall.model
    /\ (pcall.kind = "RecordUsage" /\ ~pcall.exists) =>
          \A m \in UsageModels \ {pcall.model} :
              \A c \in Counters :
                  GetModelUsage(userUsage, pcall.userID, m)[c] = 0

\* C36: a completion request from a deny-listed country or from the
\* anonymizing network ("T1") is refused, and no request of it is sent to
\* the vendor's chat endpoint.
C36_CompletionGeoChecked ==
    (/\ pcall.kind = "PerformCompletion"
     /\ AuthorizeAccessForCountry(pcall.CountryCode)
            \in {"ErrRestrictedRegion", "ErrTorNetwork"}) =>
        /\ pcall.out.err # "nil"
        /\ pcall.out.sent = None

(***************************************************************************)
(* Concurrent completion requests of one caller for one model: each        *)
(* goroutine runs PerformCompletion and ProcessStreamingResponse, reading  *)
(* the usage map under the read lock, checking it, calling the vendor and  *)
(* recording under the write lock.                                         *)
(***************************************************************************)

\* PerformCompletion: usage := s.GetModelUsage(req.Token.UserID, modelID)
AdmitRead(p) ==
    /\ At(p, "complete", "start")
    /\ CanRLock(usageLock)
    /\ procs' = [procs EXCEPT
                    ![p].pc = "read",
                    ![p].exists = procs[p].userID \in DOMAIN userUsage,
                    ![p].existing = GetModelUsage(userUsage, procs[p].userID,
                                                  procs[p].model)]
    /\ UNCHANGED <<userUsage, usageLock, committed>>

\* ValidateAccess(req.Token, modelID, usage), on the usage read before
AdmitCheck(p) ==
    /\ At(p, "complete", "read")
    /\ procs' = [procs EXCEPT
                    ![p].pc = IF ValidateAccess(validateTokenDisabled,
                                               procs[p].model,
                                               procs[p].existing) = "nil"
                              THEN "admitted" ELSE "rejected"]
    /\ UNCHANGED <<userUsage, usageLock, committed>>

\* s.callCopilotAPI: the request goes to the vendor, which answers 200
AdmitForward(p) ==
    /\ At(p, "complete", "admitted")
    /\ procs' = [procs EXCEPT ![p].pc = "forwarded"]
    /\ UNCHANGED <<userUsage, usageLock, committed>>

\* ProcessStreamingResponse: s.RecordUsage(userID, model, ...)
AdmitRecord(p) ==
    /\ At(p, "complete", "forwarded")
    /\ CanLock(usageLock)
    /\ userUsage' = RecordUsage(userUsage, procs[p].userID, procs[p].model,
                                procs[p].tokens)
    /\ procs' = [procs EXCEPT ![p].pc = "done"]
    /\ UNCHANGED <<usageLock, committed>>

\* the requests recorded before the goroutines start: up to MaxProcs
\* below the model's per-minute ceiling
AdmitStarts ==
    {Recorded(EmptyUsage, UsageCaller, Gpt4,
              FindModel(Gpt4).MaxRequestsPerMinute - n) : n \in 0..MaxProcs}

AdmitInit ==
    /\ ClockInit /\ TokenIdle /\ CredIdle /\ ResolveIdle /\ GatewayIdle
    /\ PolicyIdle /\ RelayIdle /\ AuthIdle
    /\ userUsage \in AdmitStarts
    /\ usageLock = Unlocked
    /\ procs = [p \in Procs |-> Goroutine("complete", RecordedTokens)]
    /\ committed = [count |-> 0, tokens |-> 0]

AdmitNext ==
    \/ \E p \in Procs : AdmitRead(p) /\ UNCHANGED <<exceptUsage, clockVars>>
    \/ \E p \in Procs : AdmitCheck(p) /\ UNCHANGED <<exceptUsage, clockVars>>
    \/ \E p \in Procs : AdmitForward(p) /\ UNCHANGED <<exceptUsage, clockVars>>
    \/ \E p \in Procs : AdmitRecord(p) /\ UNCHANGED <<exceptUsage, clockVars>>

SpecAdmit == AdmitInit /\ [][AdmitNext]_vars

\* the caller's requests sent to the vendor: the recorded ones and those
\* sent and not yet recorded
Forwarded ==
    GetModelUsage(userUsage, UsageCaller, Gpt4).RequestsThisMinute
        + Cardinality({p \in Procs : procs[p].pc = "forwarded"})

\* C34: under every interleaving of one caller's concurrent completion
\* requests, the number of its requests sent to the vendor is at most the
\* model's per-minute ceiling.
C34_ForwardedWithinCeiling ==
    Forwarded <= FindModel(Gpt4).MaxRequestsPerMinute

(***************************************************************************)
(* auth.Service behind the /authenticate and /status routes of App: each   *)
(* request runs in a goroutine of its own, and Authenticate and GetStatus  *)
(* read and write isAuthenticated without taking the Service's mutex.      *)
(***************************************************************************)

\* NewService, and the /authenticate requests that have arrived
NewAuthService ==
    [kind |-> "service", isAuthenticated |-> FALSE,
     calls |-> [p \in Procs |-> [pc |-> "start", seen |-> FALSE,
                                 err |-> "", code |-> 0]],
     status |-> ""]

\* Authenticate: if s.isAuthenticated, the read
AuthenticateRead(p) ==
    /\ authSvc.calls[p].pc = "start"
    /\ authSvc' = [authSvc EXCEPT
                      !.calls[p].pc = "read",
                      !.calls[p].seen = authSvc.isAuthenticated]

\* Authenticate from the branch on: the error, or the write and nil; and
\* the status handleAuthenticate answers with
AuthenticateReturn(p) ==
    /\ authSvc.calls[p].pc = "read"
    /\ authSvc' =
          IF authSvc.calls[p].seen
          THEN [authSvc EXCEPT !.calls[p].pc = "done",
                               !.calls[p].err = "Already authenticated",
                               !.calls[p].code = 401]
          ELSE [authSvc EXCEPT !.isAuthenticated = TRUE,
                               !.calls[p].pc = "done",
                               !.calls[p].err = "nil",
                               !.calls[p].code = 200]

\* GetStatus, as handleStatus calls it
GetStatus ==
    authSvc' = [authSvc EXCEPT
                   !.status = IF authSvc.isAuthenticated
                              THEN "Authenticated" ELSE "Not Authenticated"]

AuthInit ==
    /\ ClockInit /\ TokenIdle /\ CredIdle /\ ResolveIdle /\ GatewayIdle
    /\ UsageIdle /\ PolicyIdle /\ RelayIdle
    /\ authSvc = NewAuthService

exceptAuth ==
    <<clockVars, tokenVars, credVars, resolveVars, gatewayVars, usageVars,
      policyVars, relayVars>>

AuthNext ==
    \/ \E p \in Procs : AuthenticateRead(p) /\ UNCHANGED exceptAuth
    \/ \E p \in Procs : AuthenticateReturn(p) /\ UNCHANGED exceptAuth
    \/ GetStatus /\ UNCHANGED exceptAuth

SpecAuth == AuthInit /\ [][AuthNext]_vars

\* the Authenticate calls that have returned nil
Succeeded == {p \in Procs : authSvc.calls[p].err = "nil"}

\* C33: however the Authenticate calls on one Service interleave, at most
\* one of them returns nil, and once all have returned exactly one has,
\* the others having returned the error that handleAuthenticate answers
\* with 401; and GetStatus reads "Authenticated" only after a call has
\* succeeded.
C33_ExactlyOneAuthenticates ==
    /\ Cardinality(Succeeded) <= 1
    /\ (\A p \in Procs : authSvc.calls[p].pc = "done") =>
          /\ Cardinality(Succeeded) = 1
          /\ \A p \in Procs \ Succeeded :
                /\ authSvc.calls[p].err = "Already authenticated"
                /\ authSvc.calls[p].code = 401
    /\ authSvc.status = "Authenticated" => Succeeded # {}

\* the credential names an expiry time and that time is behind t
PastExpiry(apiKey, t) ==
    \E i \in 1..Len(apiKey) :
        apiKey[i].k = "exp" /\ apiKey[i].isInt /\ apiKey[i].n < t

\* C35: every credential GetCopilotAPIKey returns without error, be it
\* the configured one, the one the exchange gave or the one read from the
\* local file, is unexpired at the time of the call.
C35_ReturnedKeyUnexpired ==
    (rcall.kind = "resolve" /\ ~rcall.out.err) =>
        ~PastExpiry(rcall.out.apiKey, rcall.at)

\* the members of a raw body other than the three the handlers treat
CarriedMembers(incoming) == DOMAIN incoming \ {"model", "provider", "stream"}

\* C31 as it stands: the normalizer takes the body's model, or
\* "copilot-chat" when the body has none, sets the provider marker only
\* when the body has none, and every other member of the body is in the
\* forwarded payload with the value it had.
C31_EveryFieldCarried ==
    pcall.kind = "Normalize" =>
        LET incoming == pcall.incoming IN
        /\ pcall.params.Model = IF "model" \in DOMAIN incoming
                                THEN incoming.model ELSE CopilotChat
        /\ pcall.payload.provider = IF "provider" \in DOMAIN incoming
                                    THEN incoming.provider ELSE "copilot"
        /\ \A k \in DOMAIN incoming \ {"model", "provider"} :
              /\ k \in DOMAIN pcall.payload
              /\ pcall.payload[k] = incoming[k]

\* C31, amended: the normalizer takes the body's model when it is a
\* non-empty string and "copilot-chat" otherwise, and sets the provider
\* marker only when the body has none; the top-level stream member is
\* dropped; every other member is in the forwarded payload, a number
\* with the value it has as a float64; the payload's model is the
\* resolved id, and temperature, top_p and max_tokens are the only
\* members added.
C31_NormalizedPayload ==
    pcall.kind = "Normalize" =>
        LET incoming == pcall.incoming IN
        /\ pcall.params.Model =
              IF "model" \in DOMAIN incoming /\ incoming.model # <<>>
              THEN incoming.model ELSE CopilotChat
        /\ pcall.payload.provider = IF "provider" \in DOMAIN incoming
                                    THEN incoming.provider ELSE "copilot"
        /\ pcall.payload.model = pcall.modelID
        /\ "stream" \notin DOMAIN pcall.payload
        /\ \A k \in CarriedMembers(incoming) :
              /\ k \in DOMAIN pcall.payload
              /\ pcall.payload[k] =
                    IF k = "seed" THEN Float64Text(incoming[k])
                    ELSE incoming[k]
        /\ DOMAIN pcall.payload =
              CarriedMembers(incoming)
                  \cup {"model", "provider", "temperature", "top_p",
                        "max_tokens"}

C31_Witness ==
    /\ pcall.kind = "Normalize"
    /\ DOMAIN pcall.incoming = {"messages", "stream", "seed"}
    /\ pcall.incoming.seed = "9007199254740993"
    /\ pcall.params.Model = CopilotChat
    /\ pcall.payload.provider = "copilot"
    /\ pcall.payload.messages = Messages.messages
    /\ pcall.payload.seed = "9007199254740992"

\* C39: after a write to the caller has failed, the streaming copy
\* attempts no further write and no flush for that request.
C39_NoCallAfterWriteError == relay.afterWriteErr = 0

\* C32: a streaming response is never ended by the fixed timeout of the
\* vendor call; its copy ends only when the vendor's body ends or breaks.
C32_StreamNotCutByTimeout ==
    (relay.phase = "replied" /\ relay.isStream /\ relay.out.kind = "sse")
        => relay.ended # "timeout"

====
